---- MODULE Spec2Model ----
(***************************************************************************)
(* Model of the AI-Native-Development-System intent pipeline:              *)
(*   - the LLM response section extractor of                               *)
(*     Processor.generateCodeWithLLM (pkg/intent/processor.go),            *)
(*   - the desktop GUI executeIntent with its parse / execute timeouts     *)
(*     (cmd/ai-native-dev, carried in README.md),                          *)
(*   - the HTTP handlers Server.handleIntent and Server.handleModelSelect  *)
(*     (pkg/server/server.go) and the intent processor's shared LLM        *)
(*     client,                                                             *)
(*   - the desktop GUI's models cache: fetchAvailableModels,               *)
(*     createModelSelector and refreshModelsList (README.md),              *)
(*   - one intent through Processor.ParseIntent and ExecuteIntent and the  *)
(*     response handleIntent builds from it,                               *)
(*   - convertToStringMap with the JSON encoding and decoding it rests on. *)
(*                                                                         *)
(* A completion text is a sequence of tokens.  The token "=" stands for    *)
(* the three characters "===", "C" for "CODE", "A" for "AST", "S" for      *)
(* "SEMANTICS", " " for one whitespace character and "x" for any other     *)
(* character, so that the marker literals are three-token sequences that   *)
(* can overlap in a text exactly as the real literals can.                 *)
(***************************************************************************)
EXTENDS Integers, Sequences, FiniteSets, TLC

VARIABLES
    text,       \* response.Choices[0].Message.Content handed to the extractor
    sections,   \* the section map returned by generateCodeWithLLM
    resections, \* the section map of a second extraction, run on sections["code"]
    epc,        \* position of the extraction run: "input", "extracted", "reextracted"
    guiClient,  \* desktop GUI: state.llmClient != nil
    g,          \* per executeIntent request: goroutine positions, channels, timers, captured variables
    codeOutput, \* state.ui.codeOutput: [req |-> request that set it, val |-> its text]
    astOutput,  \* state.ui.astOutput
    semanticOutput, \* state.ui.semanticOutput
    srvClient,  \* HTTP server: s.llmClient, nil or built from OPENROUTER_API_KEY
    srvModel,   \* the model set in s.llmClient by SetModel
    procClient, \* the intent processor's llmClient: nil, the environment client or
                \* the temporary client built from a request's api_key
    h,          \* per /api/intent request: handler position, request body, clients used
    modelsCache, \* desktop GUI: the global ModelsCache, [Models, Timestamp]
    now,        \* the wall clock, in units of twelve hours
    mf,         \* per model fetch: the goroutine running fetchAvailableModels and its selector
    selectedModel, \* state.selectedModel
    uiSel,      \* state.ui.modelSelector: the fetch whose selector it is, 0 for nil
    lastFetch,  \* the time the last successful network fetch stored its result, 0 for none
    refreshed,  \* refreshModelsList ran since then
    p,          \* one intent handled by the Processor: ParseIntent, then ExecuteIntent
    cv,         \* one call of convertToStringMap and what its caller displays
    web,        \* web UI: clock, userApiKey, localStorage's model cache, the selector
                \* and the calls of fetchModels
    ky          \* desktop GUI: state.apiKey, the keys of state.llmClient and of the
                \* processor's client, and the Save API Key attempts

extractVars == <<text, sections, resections, epc>>
guiVars == <<guiClient, g, codeOutput, astOutput, semanticOutput>>
srvVars == <<srvClient, srvModel, procClient, h>>
cacheVars == <<modelsCache, now, mf, selectedModel, uiSel, lastFetch, refreshed>>
procVars == <<p>>
convVars == <<cv>>
vars == <<text, sections, resections, epc,
          guiClient, g, codeOutput, astOutput, semanticOutput,
          srvClient, srvModel, procClient, h,
          modelsCache, now, mf, selectedModel, uiSel, lastFetch, refreshed,
          p, cv, web, ky>>

-----------------------------------------------------------------------------
(* Bounds *)

MaxPieces == 5

\* number of executeIntent requests the user issues
NumGuiReqs == 2

\* number of /api/intent requests the server receives
NumSrvReqs == 2

\* model fetches started (createModelSelector and refreshModelsList calls)
NumModelReqs == 2

\* the last instant of the wall clock
MaxClock == 2

\* 12*time.Hour, in units of twelve hours
CacheTTL == 1

\* calls of the web UI's fetchModels
NumWebReqs == 2

\* CACHE_DURATION of the web UI, in units of twelve hours
CACHE_DURATION == 1

\* Save API Key attempts of the desktop GUI
NumKeyReqs == 2

-----------------------------------------------------------------------------
(* Marker literals and placeholders *)

MarkerCode == <<"=", "C", "=">>
MarkerAst == <<"=", "A", "=">>
MarkerSem == <<"=", "S", "=">>

PlaceholderAst == <<"// AST representation not available">>
PlaceholderSem == <<"// Semantic model not available">>

-----------------------------------------------------------------------------
(* Go string helpers *)

\* text[from:to] with 0-based, half-open Go slice indices
Slice(s, from, to) == SubSeq(s, from + 1, to)

\* text[from:]
SliceFrom(s, from) == SubSeq(s, from + 1, Len(s))

\* strings.Index: 0-based index of the first occurrence of sub in s, else -1
Index(s, sub) ==
    LET hits == { i \in 0..(Len(s) - Len(sub)) : Slice(s, i, i + Len(sub)) = sub }
    IN IF hits = {} THEN -1 ELSE CHOOSE i \in hits : \A j \in hits : i <= j

IsSpace(c) == c = " "

\* strings.TrimSpace: drop leading and trailing whitespace
TrimSpace(s) ==
    LET keep == { i \in 1..Len(s) : ~IsSpace(s[i]) }
    IN IF keep = {} THEN <<>>
       ELSE LET lo == CHOOSE i \in keep : \A j \in keep : i <= j
                hi == CHOOSE i \in keep : \A j \in keep : j <= i
            IN SubSeq(s, lo, hi)

\* sections[k] of a Go map[string]string: the zero value "" for an absent key
Get(m, k) == IF k \in DOMAIN m THEN m[k] ELSE <<>>

\* m with m[k] = v added or overwritten
Put(m, k, v) == [x \in (DOMAIN m) \cup {k} |-> IF x = k THEN v ELSE m[x]]

EmptyMap == [x \in {} |-> <<>>]

-----------------------------------------------------------------------------
(* Processor.generateCodeWithLLM: the section extraction *)

\* "Extract code section"
ExtractCode(m, t) ==
    LET codeIdx == Index(t, MarkerCode)
    IN IF codeIdx # -1
       THEN LET start == codeIdx + Len(MarkerCode)
                endIdx == Index(SliceFrom(t, start), MarkerAst)
            IN IF endIdx # -1
               THEN Put(m, "code", TrimSpace(Slice(t, start, start + endIdx)))
               ELSE Put(m, "code", TrimSpace(SliceFrom(t, start)))
       ELSE m

\* "Extract AST section"
ExtractAst(m, t) ==
    LET astIdx == Index(t, MarkerAst)
    IN IF astIdx # -1
       THEN LET start == astIdx + Len(MarkerAst)
                endIdx == Index(SliceFrom(t, start), MarkerSem)
            IN IF endIdx # -1
               THEN Put(m, "ast", TrimSpace(Slice(t, start, start + endIdx)))
               ELSE Put(m, "ast", TrimSpace(SliceFrom(t, start)))
       ELSE m

\* "Extract semantics section"
ExtractSemantics(m, t) ==
    LET semIdx == Index(t, MarkerSem)
    IN IF semIdx # -1
       THEN Put(m, "semantics", TrimSpace(SliceFrom(t, semIdx + Len(MarkerSem))))
       ELSE m

\* the condition of the fallback: every section has length 0
NoSectionFound(m) ==
    /\ Len(Get(m, "code")) = 0
    /\ Len(Get(m, "ast")) = 0
    /\ Len(Get(m, "semantics")) = 0

\* variant: the fallback hands the response over untrimmed
FallbackCodeVerbatim(t) == t

\* the fallback's code section
FallbackCode(t) == TrimSpace(t)

\* variant: no fallback at all, as in the first version of generateCodeWithLLM
ApplyNoFallback(m, t) == m

\* "If we didn't find any sections in the expected format, return the entire
\* response as code"
ApplyFallback(m, t) ==
    IF NoSectionFound(m)
    THEN Put(Put(Put(m, "code", FallbackCode(t)), "ast", PlaceholderAst),
             "semantics", PlaceholderSem)
    ELSE m

\* the section map generateCodeWithLLM returns for the completion text t
ExtractSections(t) ==
    ApplyFallback(ExtractSemantics(ExtractAst(ExtractCode(EmptyMap, t), t), t), t)

-----------------------------------------------------------------------------
(* Completion texts fed to the extractor *)

Pieces == { MarkerCode, MarkerAst, MarkerSem,
            <<"=">>, <<"A">>, <<"S">>, <<" ">>, <<"x">> }

RECURSIVE Flatten(_)
Flatten(ps) == IF ps = <<>> THEN <<>> ELSE Head(ps) \o Flatten(Tail(ps))

\* the texts made of at most k pieces
Texts(k) == { Flatten(ps) : ps \in UNION { [1..n -> Pieces] : n \in 0..k } }

\* the extractor before any completion text arrived
ExtractIdle ==
    /\ text = <<>>
    /\ sections = EmptyMap
    /\ resections = EmptyMap
    /\ epc = "idle"

InitExtract ==
    /\ text \in Texts(MaxPieces)
    /\ sections = EmptyMap
    /\ resections = EmptyMap
    /\ epc = "input"

\* one run of the extractor on the completion text
Extract ==
    /\ epc = "input"
    /\ sections' = ExtractSections(text)
    /\ epc' = "extracted"
    /\ UNCHANGED <<text, resections>>
    /\ UNCHANGED guiVars
    /\ UNCHANGED srvVars
    /\ UNCHANGED <<cacheVars, procVars, convVars, web, ky>>

\* a second run of the extractor, on the code section the first run produced
ReExtract ==
    /\ epc = "extracted"
    /\ resections' = ExtractSections(Get(sections, "code"))
    /\ epc' = "reextracted"
    /\ UNCHANGED <<text, sections>>
    /\ UNCHANGED guiVars
    /\ UNCHANGED srvVars
    /\ UNCHANGED <<cacheVars, procVars, convVars, web, ky>>

NextExtract == Extract \/ ReExtract

-----------------------------------------------------------------------------
(* Processor.ParseIntent and Processor.ExecuteIntent as functions of the LLM's
   reply.  A raw intent is a sequence of words. *)

Contains(raw, w) == \E i \in 1..Len(raw) : raw[i] = w

\* "Fallback to basic parsing if LLM is not available": Intent.Type
BasicParse(raw) ==
    IF Contains(raw, "create") \/ Contains(raw, "make") THEN "Create"
    ELSE IF Contains(raw, "modify") \/ Contains(raw, "change") THEN "Modify"
    ELSE IF Contains(raw, "delete") \/ Contains(raw, "remove") THEN "Delete"
    ELSE IF Contains(raw, "query") \/ Contains(raw, "find") THEN "Query"
    ELSE ""

\* ParseIntent(raw) with the LLM client present (hasClient) and the reply the
\* LLM gives: the type of the returned intent ("nil" for a nil intent) and
\* the returned error
ParseIntent(hasClient, raw, reply) ==
    IF ~hasClient THEN [type |-> BasicParse(raw), err |-> "nil"]
    ELSE IF reply = "fail" THEN [type |-> BasicParse(raw), err |-> "nil"]
    ELSE IF reply = "nochoices"
         THEN [type |-> "nil", err |-> "no response from LLM API"]
    ELSE [type |-> reply, err |-> "nil"]

\* completion texts the code generation call may return
GenTexts == { MarkerCode \o <<"x">> \o MarkerAst \o <<"x">> \o MarkerSem \o <<"x">>,
              MarkerCode \o <<"x">> }

NoResult == [kind |-> "nil"]

\* ExecuteIntent(intent) with the reply the LLM gives (when it is called):
\* the returned result and error
ExecuteIntent(hasClient, type, reply) ==
    CASE type = "Create" /\ hasClient ->
            IF reply = <<"fail">>
            THEN [result |-> NoResult, err |-> "LLM call failed"]
            ELSE IF reply = <<"nochoices">>
            THEN [result |-> NoResult, err |-> "no response from LLM API"]
            ELSE [result |-> [kind |-> "sections", m |-> ExtractSections(reply)],
                  err |-> "nil"]
      [] type = "Create" /\ ~hasClient ->
            [result |-> [kind |-> "entities"], err |-> "nil"]
      [] type = "Modify" ->
            [result |-> NoResult, err |-> "no entities found to modify"]
      [] type = "Delete" ->
            [result |-> NoResult, err |-> "no entities found to delete"]
      [] type = "Query" ->
            [result |-> [kind |-> "query"], err |-> "nil"]
      [] OTHER ->
            [result |-> NoResult, err |-> "unknown intent type"]

-----------------------------------------------------------------------------
(* Go values of type interface{} and encoding/json.  A string is a sequence
   of characters; a JSON text is a sequence of characters too, a map key
   (and a digit) counting as one character. *)

Str(s) == [t |-> "string", s |-> s]
Num(n) == [t |-> "number", n |-> n]
Nil == [t |-> "nil"]
NaN == [t |-> "nan"]        \* a float64 NaN: json.Marshal rejects the value
Chan == [t |-> "chan"]      \* a channel: json.Marshal rejects the type
List(items) == [t |-> "list", items |-> items]
IMap(f) == [t |-> "imap", f |-> f]        \* map[string]interface{}
SMap(f) == [t |-> "smap", f |-> f]        \* map[string]string

\* the map keys in use, in the sorted order json.Marshal emits them
KeyOrder == <<"ast", "code", "entities", "k", "relations", "semantics">>

JsonFail == [ok |-> FALSE, js |-> <<>>]

\* a JSON string literal: the quote and the backslash are escaped
RECURSIVE Escape(_)
Escape(s) ==
    IF s = <<>> THEN <<>>
    ELSE IF Head(s) \in {"\"", "\\"} THEN <<"\\", Head(s)>> \o Escape(Tail(s))
    ELSE <<Head(s)>> \o Escape(Tail(s))

RECURSIVE Marshal(_), MarshalItems(_), MarshalMembers(_, _, _)

\* json.Marshal(v): [ok, js]
Marshal(v) ==
    CASE v.t = "string" -> [ok |-> TRUE, js |-> <<"\"">> \o Escape(v.s) \o <<"\"">>]
      [] v.t = "number" -> [ok |-> TRUE, js |-> <<ToString(v.n)>>]
      [] v.t = "nil"    -> [ok |-> TRUE, js |-> <<"n", "u", "l", "l">>]
      [] v.t = "list"   ->
            LET r == MarshalItems(v.items)
            IN IF r.ok THEN [ok |-> TRUE, js |-> <<"[">> \o r.js \o <<"]">>]
               ELSE JsonFail
      [] v.t \in {"imap", "struct"} ->
            LET r == MarshalMembers(v.f, KeyOrder, FALSE)
            IN IF r.ok THEN [ok |-> TRUE, js |-> <<"{">> \o r.js \o <<"}">>]
               ELSE JsonFail
      [] v.t = "smap"   ->
            LET r == MarshalMembers([k \in DOMAIN v.f |-> Str(v.f[k])], KeyOrder, FALSE)
            IN [ok |-> TRUE, js |-> <<"{">> \o r.js \o <<"}">>]
      [] OTHER -> JsonFail

\* the elements of an array, separated by commas
MarshalItems(items) ==
    IF items = <<>> THEN [ok |-> TRUE, js |-> <<>>]
    ELSE LET first == Marshal(Head(items))
             rest == MarshalItems(Tail(items))
         IN IF ~first.ok \/ ~rest.ok THEN JsonFail
            ELSE [ok |-> TRUE,
                  js |-> IF Tail(items) = <<>> THEN first.js
                         ELSE first.js \o <<",">> \o rest.js]

\* the members of an object in key order; some says a member was emitted
MarshalMembers(f, keys, some) ==
    IF keys = <<>> THEN [ok |-> TRUE, js |-> <<>>]
    ELSE IF Head(keys) \notin DOMAIN f THEN MarshalMembers(f, Tail(keys), some)
    ELSE LET val == Marshal(f[Head(keys)])
             rest == MarshalMembers(f, Tail(keys), TRUE)
         IN IF ~val.ok \/ ~rest.ok THEN JsonFail
            ELSE [ok |-> TRUE,
                  js |-> (IF some THEN <<",">> ELSE <<>>) \o
                         <<"\"", Head(keys), "\"", ":">> \o val.js \o rest.js]

ParseFail == [ok |-> FALSE, next |-> 0, val |-> Nil]

At(t, i) == IF i >= 1 /\ i <= Len(t) THEN t[i] ELSE "EOF"

RECURSIVE ParseString(_, _, _), ParseValue(_, _), ParseItems(_, _, _),
          ParseMembers(_, _, _)

\* the rest of a string literal whose opening quote was read
ParseString(t, i, acc) ==
    CASE At(t, i) = "EOF" -> ParseFail
      [] At(t, i) = "\"" -> [ok |-> TRUE, next |-> i + 1, val |-> Str(acc)]
      [] At(t, i) = "\\" ->
            IF At(t, i + 1) \in {"\"", "\\"}
            THEN ParseString(t, i + 2, Append(acc, t[i + 1]))
            ELSE ParseFail
      [] OTHER -> ParseString(t, i + 1, Append(acc, t[i]))

\* one JSON value starting at position i: [ok, next, val]
ParseValue(t, i) ==
    CASE At(t, i) = "\"" -> ParseString(t, i + 1, <<>>)
      [] At(t, i) \in {ToString(d) : d \in 0..9} ->
            [ok |-> TRUE, next |-> i + 1,
             val |-> Num(CHOOSE n \in 0..9 : ToString(n) = t[i])]
      [] At(t, i) = "n" ->
            IF <<At(t, i + 1), At(t, i + 2), At(t, i + 3)>> = <<"u", "l", "l">>
            THEN [ok |-> TRUE, next |-> i + 4, val |-> Nil]
            ELSE ParseFail
      [] At(t, i) = "[" ->
            IF At(t, i + 1) = "]"
            THEN [ok |-> TRUE, next |-> i + 2, val |-> List(<<>>)]
            ELSE ParseItems(t, i + 1, <<>>)
      [] At(t, i) = "{" ->
            IF At(t, i + 1) = "}"
            THEN [ok |-> TRUE, next |-> i + 2, val |-> IMap(EmptyMap)]
            ELSE ParseMembers(t, i + 1, EmptyMap)
      [] OTHER -> ParseFail

ParseItems(t, i, acc) ==
    LET v == ParseValue(t, i)
    IN IF ~v.ok THEN ParseFail
       ELSE IF At(t, v.next) = ","
       THEN ParseItems(t, v.next + 1, Append(acc, v.val))
       ELSE IF At(t, v.next) = "]"
       THEN [ok |-> TRUE, next |-> v.next + 1, val |-> List(Append(acc, v.val))]
       ELSE ParseFail

ParseMembers(t, i, acc) ==
    IF At(t, i) # "\"" THEN ParseFail
    ELSE LET k == ParseString(t, i + 1, <<>>)
         IN IF ~k.ok \/ Len(k.val.s) # 1 \/ At(t, k.next) # ":" THEN ParseFail
            ELSE LET v == ParseValue(t, k.next + 1)
                     f == Put(acc, k.val.s[1], v.val)
                 IN IF ~v.ok THEN ParseFail
                    ELSE IF At(t, v.next) = ","
                    THEN ParseMembers(t, v.next + 1, f)
                    ELSE IF At(t, v.next) = "}"
                    THEN [ok |-> TRUE, next |-> v.next + 1, val |-> IMap(f)]
                    ELSE ParseFail

\* json.Unmarshal(js, &x) for x of type interface{}: [ok, val]
Unmarshal(js) ==
    LET r == ParseValue(js, 1)
    IN IF r.ok /\ r.next = Len(js) + 1 THEN [ok |-> TRUE, val |-> r.val]
       ELSE [ok |-> FALSE, val |-> Nil]

\* json.Unmarshal(js, &objMap) for objMap of type map[string]interface{}:
\* an object fills the map, null leaves it nil, anything else is an error
UnmarshalMap(js) ==
    LET r == Unmarshal(js)
    IN IF r.ok /\ r.val.t = "imap" THEN [ok |-> TRUE, f |-> r.val.f]
       ELSE IF r.ok /\ r.val.t = "nil" THEN [ok |-> TRUE, f |-> EmptyMap]
       ELSE [ok |-> FALSE, f |-> EmptyMap]

RECURSIVE Sprintf(_), SprintfItems(_), SprintfMembers(_, _, _)

\* fmt.Sprintf("%v", v)
Sprintf(v) ==
    CASE v.t = "string" -> v.s
      [] v.t = "number" -> <<ToString(v.n)>>
      [] v.t = "nil"    -> <<"<", "n", "i", "l", ">">>
      [] v.t = "nan"    -> <<"N", "a", "N">>
      [] v.t = "chan"   -> <<"0", "x", "c", "0">>
      [] v.t = "list"   -> <<"[">> \o SprintfItems(v.items) \o <<"]">>
      [] v.t = "imap"   -> <<"m", "a", "p", "[">> \o SprintfMembers(v.f, KeyOrder, FALSE)
                              \o <<"]">>
      [] v.t = "smap"   -> <<"m", "a", "p", "[">> \o
                              SprintfMembers([k \in DOMAIN v.f |-> Str(v.f[k])],
                                             KeyOrder, FALSE) \o <<"]">>
      [] OTHER -> <<"{">> \o SprintfMembers(v.f, KeyOrder, FALSE) \o <<"}">>

SprintfItems(items) ==
    IF items = <<>> THEN <<>>
    ELSE IF Tail(items) = <<>> THEN Sprintf(Head(items))
    ELSE Sprintf(Head(items)) \o <<" ">> \o SprintfItems(Tail(items))

SprintfMembers(f, keys, some) ==
    IF keys = <<>> THEN <<>>
    ELSE IF Head(keys) \notin DOMAIN f THEN SprintfMembers(f, Tail(keys), some)
    ELSE (IF some THEN <<" ">> ELSE <<>>) \o <<Head(keys), ":">> \o
         Sprintf(f[Head(keys)]) \o SprintfMembers(f, Tail(keys), TRUE)

-----------------------------------------------------------------------------
(* Desktop GUI: convertToStringMap *)

ConvFail == [ok |-> FALSE, m |-> EmptyMap]

\* variant: every value is JSON-encoded, strings too
ConvertValueEncodeAll(v) ==
    IF Marshal(v).ok THEN Marshal(v).js ELSE Sprintf(v)

\* one value of the map: a string as it is, else its JSON encoding, else %v
ConvertValue(v) ==
    IF v.t = "string" THEN v.s
    ELSE IF Marshal(v).ok THEN Marshal(v).js
    ELSE Sprintf(v)

\* variant: a value that cannot be marshaled is answered with an empty map
ConvertToStringMapNoFail(result) ==
    IF result.t = "imap"
    THEN [ok |-> TRUE, m |-> [k \in DOMAIN result.f |-> ConvertValue(result.f[k])]]
    ELSE IF result.t = "smap"
    THEN [ok |-> TRUE, m |-> result.f]
    ELSE LET u == UnmarshalMap(Marshal(result).js)
         IN IF Marshal(result).ok /\ ~u.ok THEN ConvFail
            ELSE [ok |-> TRUE, m |-> [k \in DOMAIN u.f |-> ConvertValue(u.f[k])]]

\* convertToStringMap(result): [ok, m]
ConvertToStringMap(result) ==
    IF result.t = "imap"
    THEN [ok |-> TRUE, m |-> [k \in DOMAIN result.f |-> ConvertValue(result.f[k])]]
    ELSE IF result.t = "smap"
    THEN [ok |-> TRUE, m |-> result.f]
    ELSE LET j == Marshal(result)
             u == UnmarshalMap(j.js)
         IN IF j.ok /\ u.ok
            THEN [ok |-> TRUE, m |-> [k \in DOMAIN u.f |-> ConvertValue(u.f[k])]]
            ELSE ConvFail

-----------------------------------------------------------------------------------------------------------------------------------------------------
(* Desktop GUI: executeIntent *)

GuiReqs == 1..NumGuiReqs

NoOutput == [req |-> 0, val |-> <<>>]

GuiReqInit ==
    [ pc |-> "idle",             \* the goroutine started by executeIntent
      intentText |-> <<>>,       \* until ParseIntent has used it
      progress |-> "none",       \* the progress dialog: "none", "shown", "hidden"
      dialog |-> "none",         \* the error / information dialog shown
      parseTimeout |-> "none",   \* time.After(30s): "none", "armed", "fired"
      parseComplete |-> 0,       \* messages in the channel, capacity 1
      parsePc |-> "none",        \* the goroutine running ParseIntent
      parsedIntent |-> "nil",
      parseErr |-> "nil",
      execTimeout |-> "none",    \* time.After(60s)
      execComplete |-> 0,
      execPc |-> "none",         \* the goroutine running ExecuteIntent
      result |-> NoResult,
      execErr |-> "nil",
      wrote |-> {} ]             \* the output fields the request has set

GuiIdle ==
    /\ guiClient = FALSE
    /\ g = [r \in GuiReqs |-> GuiReqInit]
    /\ codeOutput = NoOutput
    /\ astOutput = NoOutput
    /\ semanticOutput = NoOutput

InitGui ==
    /\ guiClient \in BOOLEAN
    /\ g = [r \in GuiReqs |-> GuiReqInit]
    /\ codeOutput = NoOutput
    /\ astOutput = NoOutput
    /\ semanticOutput = NoOutput

Out(r, v) == [req |-> r, val |-> v]

\* the text shown for key k of a string map: its value when present and
\* non-empty, else the given notice
Shown(m, k, notice) ==
    IF k \in DOMAIN m /\ m[k] # <<>> THEN m[k] ELSE <<notice>>

\* executeIntent, "Handle unexpected result format": the display made of
\* result once convertToStringMap answered c
DisplayConverted(result, c) ==
    IF c.ok
    THEN [wrote |-> {"code", "ast", "semantics"},
          code |-> Shown(c.m, "code", "// No code was generated for this intent"),
          ast |-> Shown(c.m, "ast", "// No AST representation was generated"),
          semantics |-> Shown(c.m, "semantics", "// No semantic model was generated")]
    ELSE IF result # Nil
    THEN [wrote |-> {"code"},
          code |-> IF Marshal(result).ok
                   THEN <<"// Result in unexpected format. Raw output:">> \o
                        Marshal(result).js
                   ELSE <<"// Result in unexpected format: ">> \o Sprintf(result),
          ast |-> <<>>, semantics |-> <<>>]
    ELSE [wrote |-> {"code"},
          code |-> <<"// No result was returned from the model">>,
          ast |-> <<>>, semantics |-> <<>>]

\* the Go value of a result of ExecuteIntent
ResultValue(res) ==
    CASE res.kind = "sections" -> SMap(res.m)
      [] res.kind = "query" -> IMap([k \in {"entities", "relations"} |-> Nil])
      [] res.kind = "entities" -> List(<<>>)
      [] OTHER -> Nil

\* capacity of parseComplete and execComplete: make(chan bool, 1)
ChanCap == 1

\* Once the three goroutines of a request have ended, the variables and
\* channels their closures captured are unreachable.
Collect(q) ==
    IF q.pc = "done" /\ q.parsePc # "calling" /\ q.execPc # "calling"
    THEN [q EXCEPT !.intentText = <<>>, !.parsedIntent = "nil", !.parseErr = "nil",
                   !.result = NoResult, !.execErr = "nil",
                   !.parseComplete = 0, !.execComplete = 0]
    ELSE q

\* executeIntent on the UI thread: the checks, the progress dialog and the
\* start of the goroutine; it returns without waiting for the goroutine
GuiExecuteIntent(r, intentText) ==
    /\ g[r].pc = "idle"
    /\ IF intentText = <<>>
       THEN /\ g' = [g EXCEPT ![r].pc = "done", ![r].dialog = "emptyIntent"]
            /\ UNCHANGED codeOutput
       ELSE IF ~guiClient
       THEN /\ g' = [g EXCEPT ![r].pc = "done", ![r].dialog = "apiKeyRequired",
                              ![r].wrote = {"code"}]
            /\ codeOutput' = Out(r, <<"// API Key Required">>)
       ELSE /\ g' = [g EXCEPT ![r].pc = "spawned", ![r].progress = "shown",
                              ![r].intentText = intentText]
            /\ UNCHANGED codeOutput
    /\ UNCHANGED <<guiClient, astOutput, semanticOutput>>
    /\ UNCHANGED extractVars
    /\ UNCHANGED srvVars
    /\ UNCHANGED <<cacheVars, procVars, convVars, web, ky>>

\* the goroutine arms the parse timer and starts the ParseIntent goroutine
GuiStartParse(r) ==
    /\ g[r].pc = "spawned"
    /\ g' = [g EXCEPT ![r].pc = "selectParse", ![r].parseTimeout = "armed",
                      ![r].parsePc = "calling"]
    /\ UNCHANGED <<guiClient, codeOutput, astOutput, semanticOutput>>
    /\ UNCHANGED extractVars
    /\ UNCHANGED srvVars
    /\ UNCHANGED <<cacheVars, procVars, convVars, web, ky>>

\* variant: the goroutine sends on parseComplete when ParseIntent returns and
\* once more before it ends
GuiParseReturnSendsTwice(r, reply) ==
    /\ g[r].parsePc = "calling"
    /\ g[r].parseComplete < ChanCap
    /\ LET res == ParseIntent(guiClient, g[r].intentText, reply)
       IN g' = [g EXCEPT ![r] = Collect([@ EXCEPT !.parsePc = IF g[r].parsedIntent = "nil"
                                                              THEN "calling" ELSE "done",
                                                  !.intentText = <<>>,
                                                  !.parsedIntent = res.type,
                                                  !.parseErr = res.err,
                                                  !.parseComplete = @ + 1])]
    /\ UNCHANGED <<guiClient, codeOutput, astOutput, semanticOutput>>
    /\ UNCHANGED extractVars
    /\ UNCHANGED srvVars
    /\ UNCHANGED <<cacheVars, procVars, convVars, web, ky>>

\* ParseIntent returns in its goroutine, which sets parsedIntent and parseErr
\* and sends on parseComplete
GuiParseReturn(r, reply) ==
    /\ g[r].parsePc = "calling"
    /\ g[r].parseComplete < ChanCap
    /\ LET res == ParseIntent(guiClient, g[r].intentText, reply)
       IN g' = [g EXCEPT ![r] = Collect([@ EXCEPT !.parsePc = "done",
                                                  !.intentText = <<>>,
                                                  !.parsedIntent = res.type,
                                                  !.parseErr = res.err,
                                                  !.parseComplete = @ + 1])]
    /\ UNCHANGED <<guiClient, codeOutput, astOutput, semanticOutput>>
    /\ UNCHANGED extractVars
    /\ UNCHANGED srvVars
    /\ UNCHANGED <<cacheVars, procVars, convVars, web, ky>>

\* the 30 second timer fires while the select waits on it
GuiParseTimerFire(r) ==
    /\ g[r].pc = "selectParse"
    /\ g[r].parseTimeout = "armed"
    /\ g' = [g EXCEPT ![r].parseTimeout = "fired"]
    /\ UNCHANGED <<guiClient, codeOutput, astOutput, semanticOutput>>
    /\ UNCHANGED extractVars
    /\ UNCHANGED srvVars
    /\ UNCHANGED <<cacheVars, procVars, convVars, web, ky>>

\* select takes <-parseComplete; parse errors are reported, else the execute
\* timer is armed and the ExecuteIntent goroutine started
GuiParseCompleted(r) ==
    /\ g[r].pc = "selectParse"
    /\ g[r].parseComplete > 0
    /\ IF g[r].parseErr # "nil"
       THEN /\ g' = [g EXCEPT ![r] = Collect([@ EXCEPT !.pc = "done",
                                 !.parseComplete = @ - 1, !.parseTimeout = "none",
                                 !.progress = "hidden", !.dialog = "parseError",
                                 !.wrote = @ \cup {"code"}])]
            /\ codeOutput' = Out(r, <<"// Intent parsing failed.">>)
       ELSE /\ g' = [g EXCEPT ![r].pc = "selectExec", ![r].parseComplete = @ - 1,
                              ![r].parseTimeout = "none",
                              ![r].execTimeout = "armed", ![r].execPc = "calling"]
            /\ UNCHANGED codeOutput
    /\ UNCHANGED <<guiClient, astOutput, semanticOutput>>
    /\ UNCHANGED extractVars
    /\ UNCHANGED srvVars
    /\ UNCHANGED <<cacheVars, procVars, convVars, web, ky>>

\* variant: the timeout branch of the parse select lacks its return
GuiParseTimedOutNoReturn(r) ==
    /\ g[r].pc = "selectParse"
    /\ g[r].parseTimeout = "fired"
    /\ g' = [g EXCEPT ![r].pc = "selectExec", ![r].progress = "hidden",
                      ![r].dialog = "parseTimeout", ![r].parseTimeout = "none",
                      ![r].execTimeout = "armed", ![r].execPc = "calling"]
    /\ UNCHANGED <<guiClient, codeOutput, astOutput, semanticOutput>>
    /\ UNCHANGED extractVars
    /\ UNCHANGED srvVars
    /\ UNCHANGED <<cacheVars, procVars, convVars, web, ky>>

\* select takes <-parseTimeout
GuiParseTimedOut(r) ==
    /\ g[r].pc = "selectParse"
    /\ g[r].parseTimeout = "fired"
    /\ g' = [g EXCEPT ![r] = Collect([@ EXCEPT !.pc = "done", !.progress = "hidden",
                                 !.dialog = "parseTimeout", !.parseTimeout = "none"])]
    /\ UNCHANGED <<guiClient, codeOutput, astOutput, semanticOutput>>
    /\ UNCHANGED extractVars
    /\ UNCHANGED srvVars
    /\ UNCHANGED <<cacheVars, procVars, convVars, web, ky>>

\* ExecuteIntent returns in its goroutine, which sets result and execErr and
\* sends on execComplete
GuiExecReturn(r, reply) ==
    /\ g[r].execPc = "calling"
    /\ g[r].execComplete < ChanCap
    /\ LET res == ExecuteIntent(guiClient, g[r].parsedIntent, reply)
       IN g' = [g EXCEPT ![r] = Collect([@ EXCEPT !.execPc = "done",
                                                  !.result = res.result,
                                                  !.execErr = res.err,
                                                  !.execComplete = @ + 1])]
    /\ UNCHANGED <<guiClient, codeOutput, astOutput, semanticOutput>>
    /\ UNCHANGED extractVars
    /\ UNCHANGED srvVars
    /\ UNCHANGED <<cacheVars, procVars, convVars, web, ky>>

\* the 60 second timer fires while the select waits on it
GuiExecTimerFire(r) ==
    /\ g[r].pc = "selectExec"
    /\ g[r].execTimeout = "armed"
    /\ g' = [g EXCEPT ![r].execTimeout = "fired"]
    /\ UNCHANGED <<guiClient, codeOutput, astOutput, semanticOutput>>
    /\ UNCHANGED extractVars
    /\ UNCHANGED srvVars
    /\ UNCHANGED <<cacheVars, procVars, convVars, web, ky>>

\* select takes <-execComplete: the result handling of executeIntent
GuiExecCompleted(r) ==
    /\ g[r].pc = "selectExec"
    /\ g[r].execComplete > 0
    /\ LET res == g[r].result
           q == [g[r] EXCEPT !.pc = "done", !.execComplete = @ - 1,
                             !.execTimeout = "none", !.progress = "hidden"]
       IN IF g[r].execErr # "nil"
          THEN /\ g' = [g EXCEPT ![r] = Collect([q EXCEPT !.dialog = "execError",
                                                          !.wrote = @ \cup {"code"}])]
               /\ codeOutput' = Out(r, <<"// Intent execution failed.">>)
               /\ UNCHANGED <<astOutput, semanticOutput>>
          ELSE IF res.kind \in {"query", "sections"}
          THEN \* map[string]interface{} without string values, or map[string]string
               LET m == IF res.kind = "sections" THEN res.m ELSE EmptyMap
               IN /\ g' = [g EXCEPT ![r] = Collect([q EXCEPT
                                   !.wrote = @ \cup {"code", "ast", "semantics"}])]
                  /\ codeOutput' =
                        Out(r, Shown(m, "code", "// No code was generated for this intent"))
                  /\ astOutput' =
                        Out(r, Shown(m, "ast", "// No AST representation was generated"))
                  /\ semanticOutput' =
                        Out(r, Shown(m, "semantics", "// No semantic model was generated"))
          ELSE \* "Handle unexpected result format"
               LET d == DisplayConverted(ResultValue(res),
                                         ConvertToStringMap(ResultValue(res)))
               IN /\ g' = [g EXCEPT ![r] = Collect([q EXCEPT !.wrote = @ \cup d.wrote])]
                  /\ codeOutput' = Out(r, d.code)
                  /\ astOutput' = IF "ast" \in d.wrote THEN Out(r, d.ast)
                                  ELSE astOutput
                  /\ semanticOutput' = IF "semantics" \in d.wrote
                                       THEN Out(r, d.semantics) ELSE semanticOutput
    /\ UNCHANGED guiClient
    /\ UNCHANGED extractVars
    /\ UNCHANGED srvVars
    /\ UNCHANGED <<cacheVars, procVars, convVars, web, ky>>

\* variant: the timeout branch of the execute select leaves the progress
\* dialog open
GuiExecTimedOutNoHide(r) ==
    /\ g[r].pc = "selectExec"
    /\ g[r].execTimeout = "fired"
    /\ g' = [g EXCEPT ![r] = Collect([@ EXCEPT !.pc = "done",
                                 !.dialog = "execTimeout", !.execTimeout = "none"])]
    /\ UNCHANGED <<guiClient, codeOutput, astOutput, semanticOutput>>
    /\ UNCHANGED extractVars
    /\ UNCHANGED srvVars
    /\ UNCHANGED <<cacheVars, procVars, convVars, web, ky>>

\* select takes <-execTimeout
GuiExecTimedOut(r) ==
    /\ g[r].pc = "selectExec"
    /\ g[r].execTimeout = "fired"
    /\ g' = [g EXCEPT ![r] = Collect([@ EXCEPT !.pc = "done", !.progress = "hidden",
                                 !.dialog = "execTimeout", !.execTimeout = "none"])]
    /\ UNCHANGED <<guiClient, codeOutput, astOutput, semanticOutput>>
    /\ UNCHANGED extractVars
    /\ UNCHANGED srvVars
    /\ UNCHANGED <<cacheVars, procVars, convVars, web, ky>>

NextGui ==
    \/ \E r \in GuiReqs, t \in { <<>>, <<"create", "function">> } : GuiExecuteIntent(r, t)
    \/ \E r \in GuiReqs : GuiStartParse(r)
    \/ \E r \in GuiReqs, reply \in {"fail", "nochoices", "Create", "Query"} : GuiParseReturn(r, reply)
    \/ \E r \in GuiReqs : GuiParseTimerFire(r)
    \/ \E r \in GuiReqs : GuiParseCompleted(r)
    \/ \E r \in GuiReqs : GuiParseTimedOut(r)
    \/ \E r \in GuiReqs, reply \in ({<<"fail">>} \cup GenTexts) : GuiExecReturn(r, reply)
    \/ \E r \in GuiReqs : GuiExecTimerFire(r)
    \/ \E r \in GuiReqs : GuiExecCompleted(r)
    \/ \E r \in GuiReqs : GuiExecTimedOut(r)

-----------------------------------------------------------------------------
(* HTTP server: Server.handleIntent, one goroutine per request, all sharing
   the intent processor *)

SrvReqs == 1..NumSrvReqs

\* LLM clients: none, the one server.New built from the environment key, and
\* the temporary one handleIntent builds from the api_key of request r
NilClient == [kind |-> "nil", req |-> 0]
EnvClient == [kind |-> "env", req |-> 0]
TempClient(r) == [kind |-> "temp", req |-> r]

\* no LLM call was made
NoCall == [kind |-> "none", req |-> 0]

SrvReqInit ==
    [ pc |-> "idle",
      apiKey |-> FALSE,       \* req.APIKey != ""
      modelID |-> "",         \* req.ModelID, until ParseIntent is called
      tempClient |-> FALSE,   \* tempClient != nil
      intent |-> <<>>,        \* req.Intent, until ParseIntent has used it
      type |-> "nil",         \* parsedIntent.Type, until ExecuteIntent has used it
      usedParse |-> NoCall,   \* the client the parse stage called the LLM with
      usedExec |-> NoCall,    \* the client the execute stage called the LLM with
      response |-> "none" ]

SrvIdle ==
    /\ srvClient = NilClient
    /\ srvModel = ""
    /\ procClient = NilClient
    /\ h = [r \in SrvReqs |-> SrvReqInit]

\* server.New and main: the environment client, when there is one, is handed
\* to the intent processor
InitSrv ==
    /\ srvClient \in {NilClient, EnvClient}
    /\ srvModel = ""
    /\ procClient = srvClient
    /\ h = [r \in SrvReqs |-> SrvReqInit]

\* handleIntent up to the call of ParseIntent: method check, body decoding,
\* the temporary client and the model selection
SrvReceive(r, ok, apiKey, modelID, intent) ==
    /\ h[r].pc = "idle"
    /\ IF ~ok
       THEN \* "Method not allowed" or "Bad request"
            /\ h' = [h EXCEPT ![r].pc = "done", ![r].response = "rejected"]
            /\ UNCHANGED <<procClient, srvModel>>
       ELSE IF apiKey /\ srvClient = NilClient
       THEN \* SetLLMClient(tempClient); defer SetLLMClient(nil)
            /\ h' = [h EXCEPT ![r].pc = "parse", ![r].apiKey = apiKey,
                              ![r].modelID = modelID,
                              ![r].tempClient = TRUE, ![r].intent = intent]
            /\ procClient' = TempClient(r)
            /\ UNCHANGED srvModel
       ELSE /\ h' = [h EXCEPT ![r].pc = "parse", ![r].apiKey = apiKey,
                              ![r].modelID = modelID, ![r].intent = intent]
            /\ srvModel' = IF srvClient # NilClient /\ modelID # "" THEN modelID ELSE srvModel
            /\ UNCHANGED procClient
    /\ UNCHANGED srvClient
    /\ UNCHANGED extractVars
    /\ UNCHANGED guiVars
    /\ UNCHANGED <<cacheVars, procVars, convVars, web, ky>>

\* handleModelSelect, from the request to the answer: "rejected" for a wrong
\* method, an undecodable body or a missing model ID, "selected" for
\* success true, "selectFailed" for success false
SrvModelSelect(r, ok, apiKey, modelID) ==
    /\ h[r].pc = "idle"
    /\ IF ~ok \/ modelID = ""
       THEN /\ h' = [h EXCEPT ![r].pc = "done", ![r].response = "rejected"]
            /\ UNCHANGED srvModel
       ELSE IF apiKey
       THEN \* the temporary client is built and dropped
            /\ h' = [h EXCEPT ![r].pc = "done", ![r].response = "selected",
                              ![r].modelID = modelID]
            /\ UNCHANGED srvModel
       ELSE IF srvClient = NilClient
       THEN /\ h' = [h EXCEPT ![r].pc = "done", ![r].response = "selectFailed"]
            /\ UNCHANGED srvModel
       ELSE \* s.llmClient.SetModel(req.ModelID)
            /\ h' = [h EXCEPT ![r].pc = "done", ![r].response = "selected",
                              ![r].modelID = modelID]
            /\ srvModel' = modelID
    /\ UNCHANGED <<srvClient, procClient>>
    /\ UNCHANGED extractVars
    /\ UNCHANGED guiVars
    /\ UNCHANGED <<cacheVars, procVars, convVars, web, ky>>

\* handleModels, from the request to the answer: "rejected" for a wrong
\* method or an undecodable POST body, "unauthorized" for the 401 answer,
\* "modelsError" when GetAvailableModels fails, "models" for the model list;
\* only a POST body carries an api_key
SrvModels(r, method, ok, apiKey, fetched) ==
    /\ h[r].pc = "idle"
    /\ LET clientAPIKey == method = "POST" /\ apiKey
       IN IF method \notin {"GET", "POST"} \/ (method = "POST" /\ ~ok)
          THEN h' = [h EXCEPT ![r].pc = "done", ![r].response = "rejected"]
          ELSE IF ~clientAPIKey /\ srvClient = NilClient
          THEN h' = [h EXCEPT ![r].pc = "done", ![r].response = "unauthorized"]
          ELSE h' = [h EXCEPT ![r].pc = "done", ![r].apiKey = clientAPIKey,
                              ![r].response = IF fetched THEN "models"
                                              ELSE "modelsError"]
    /\ UNCHANGED <<srvClient, srvModel, procClient>>
    /\ UNCHANGED extractVars
    /\ UNCHANGED guiVars
    /\ UNCHANGED <<cacheVars, procVars, convVars, web, ky>>

\* ParseIntent: "if p.llmClient != nil", else the basic parsing
SrvParseCheck(r) ==
    /\ h[r].pc = "parse"
    /\ IF procClient # NilClient
       THEN h' = [h EXCEPT ![r].pc = "parseCall", ![r].modelID = ""]
       ELSE h' = [h EXCEPT ![r].pc = "exec", ![r].modelID = "",
                           ![r].type = ParseIntent(FALSE, h[r].intent, "fail").type,
                           ![r].intent = <<>>]
    /\ UNCHANGED <<srvClient, srvModel, procClient>>
    /\ UNCHANGED extractVars
    /\ UNCHANGED guiVars
    /\ UNCHANGED <<cacheVars, procVars, convVars, web, ky>>

\* parseIntentWithLLM: p.llmClient.GetChatCompletion(messages) starts; a nil
\* client panics, net/http recovers and the deferred call runs
SrvParseCall(r) ==
    /\ h[r].pc = "parseCall"
    /\ IF procClient = NilClient
       THEN h' = [h EXCEPT ![r].pc = "deferred", ![r].response = "panic",
                           ![r].intent = <<>>]
       ELSE h' = [h EXCEPT ![r].pc = "parseWait", ![r].usedParse = procClient]
    /\ UNCHANGED <<srvClient, srvModel, procClient>>
    /\ UNCHANGED extractVars
    /\ UNCHANGED guiVars
    /\ UNCHANGED <<cacheVars, procVars, convVars, web, ky>>

\* the parse-stage LLM call returns
SrvParseReturn(r, reply) ==
    /\ h[r].pc = "parseWait"
    /\ LET res == ParseIntent(TRUE, h[r].intent, reply)
       IN IF res.err # "nil"
          THEN h' = [h EXCEPT ![r].pc = "deferred", ![r].response = "parseError",
                              ![r].intent = <<>>]
          ELSE h' = [h EXCEPT ![r].pc = "exec", ![r].type = res.type,
                              ![r].intent = <<>>]
    /\ UNCHANGED <<srvClient, srvModel, procClient>>
    /\ UNCHANGED extractVars
    /\ UNCHANGED guiVars
    /\ UNCHANGED <<cacheVars, procVars, convVars, web, ky>>

\* ExecuteIntent: the switch on the type; handleCreateIntent tests
\* "if p.llmClient != nil"; results that are no section map get the mock
\* response
SrvExecCheck(r) ==
    /\ h[r].pc = "exec"
    /\ IF h[r].type = "Create" /\ procClient # NilClient
       THEN h' = [h EXCEPT ![r].pc = "genCall", ![r].type = "nil"]
       ELSE LET res == ExecuteIntent(FALSE, h[r].type, <<"fail">>)
            IN h' = [h EXCEPT ![r].pc = "deferred", ![r].type = "nil",
                              ![r].response = IF res.err # "nil" THEN "execError"
                                              ELSE "mock"]
    /\ UNCHANGED <<srvClient, srvModel, procClient>>
    /\ UNCHANGED extractVars
    /\ UNCHANGED guiVars
    /\ UNCHANGED <<cacheVars, procVars, convVars, web, ky>>

\* generateCodeWithLLM: p.llmClient.GetChatCompletion(messages) starts
SrvGenCall(r) ==
    /\ h[r].pc = "genCall"
    /\ IF procClient = NilClient
       THEN h' = [h EXCEPT ![r].pc = "deferred", ![r].response = "panic"]
       ELSE h' = [h EXCEPT ![r].pc = "genWait", ![r].usedExec = procClient]
    /\ UNCHANGED <<srvClient, srvModel, procClient>>
    /\ UNCHANGED extractVars
    /\ UNCHANGED guiVars
    /\ UNCHANGED <<cacheVars, procVars, convVars, web, ky>>

\* the generation-stage LLM call returns; the sections are encoded by
\* processLLMSections
SrvGenReturn(r, reply) ==
    /\ h[r].pc = "genWait"
    /\ LET res == ExecuteIntent(TRUE, "Create", reply)
       IN h' = [h EXCEPT ![r].pc = "deferred",
                         ![r].response = IF res.err # "nil" THEN "execError"
                                         ELSE "generated"]
    /\ UNCHANGED <<srvClient, srvModel, procClient>>
    /\ UNCHANGED extractVars
    /\ UNCHANGED guiVars
    /\ UNCHANGED <<cacheVars, procVars, convVars, web, ky>>

\* variant: the handler returns without the deferred SetLLMClient(nil)
SrvReturnNoReset(r) ==
    /\ h[r].pc = "deferred"
    /\ h' = [h EXCEPT ![r].pc = "done"]
    /\ UNCHANGED <<srvClient, srvModel, procClient>>
    /\ UNCHANGED extractVars
    /\ UNCHANGED guiVars
    /\ UNCHANGED <<cacheVars, procVars, convVars, web, ky>>

\* handleIntent returns: the deferred SetLLMClient(nil) of a request that
\* created a temporary client runs
SrvReturn(r) ==
    /\ h[r].pc = "deferred"
    /\ h' = [h EXCEPT ![r].pc = "done"]
    /\ procClient' = IF h[r].tempClient THEN NilClient ELSE procClient
    /\ UNCHANGED <<srvClient, srvModel>>
    /\ UNCHANGED extractVars
    /\ UNCHANGED guiVars
    /\ UNCHANGED <<cacheVars, procVars, convVars, web, ky>>

NextSrv ==
    \/ \E r \in SrvReqs, ok \in BOOLEAN, apiKey \in BOOLEAN,
          modelID \in {"", "m1"}, intent \in { <<"create", "function">>, <<"find", "login">> } :
            SrvReceive(r, ok, apiKey, modelID, intent)
    \/ \E r \in SrvReqs, ok \in BOOLEAN, apiKey \in BOOLEAN, modelID \in {"", "m1"} :
            SrvModelSelect(r, ok, apiKey, modelID)
    \/ \E r \in SrvReqs, method \in {"GET", "POST", "DELETE"}, ok \in BOOLEAN, apiKey \in BOOLEAN,
          fetched \in BOOLEAN :
            SrvModels(r, method, ok, apiKey, fetched)
    \/ \E r \in SrvReqs : SrvParseCheck(r)
    \/ \E r \in SrvReqs : SrvParseCall(r)
    \/ \E r \in SrvReqs, reply \in {"fail", "nochoices", "Create", "Query"} : SrvParseReturn(r, reply)
    \/ \E r \in SrvReqs : SrvExecCheck(r)
    \/ \E r \in SrvReqs : SrvGenCall(r)
    \/ \E r \in SrvReqs, reply \in ({<<"fail">>, <<"nochoices">>} \cup GenTexts) : SrvGenReturn(r, reply)
    \/ \E r \in SrvReqs : SrvReturn(r)

-----------------------------------------------------------------------------
(* Desktop GUI: the global models cache, fetchAvailableModels and its two
   callers createModelSelector and refreshModelsList.  Each call of a caller
   runs fetchAvailableModels in a goroutine of its own; nothing synchronises
   the goroutines' accesses to modelsCache. *)

ModelReqs == 1..NumModelReqs

\* main: selectedModel: "openai/gpt-3.5-turbo"
DefaultModel == "openai/gpt-3.5-turbo"

\* answers of the models endpoint: a failure (request error, non-200 status,
\* unreadable or undecodable body) or a list
NetReplies == {[ok |-> FALSE, data |-> <<>>]} \cup
              {[ok |-> TRUE, data |-> d] : d \in { <<>>, <<"m1">>, <<DefaultModel, "m1">> }}

ModelReqInit ==
    [ kind |-> "none",      \* "selector" (createModelSelector) or "refresh"
      pc |-> "idle",        \* position of the goroutine in fetchAvailableModels;
                            \* goroutines are numbered in the order they start
      n |-> 0,              \* len(modelsCache.Models) read for make([]string, ...)
      data |-> <<>>,        \* modelsResp.Data, until stored
      via |-> "none",       \* the return path taken: "cache" or "network"
      options |-> <<>>,     \* Options of the selector createModelSelector built
      progress |-> "none",  \* the progress dialog of refreshModelsList
      dialog |-> "none" ]   \* the dialog refreshModelsList ends with

InitCache ==
    /\ modelsCache = [Models |-> <<>>, Timestamp |-> 0]
    /\ now = 1
    /\ mf = [r \in ModelReqs |-> ModelReqInit]
    /\ selectedModel = DefaultModel
    /\ uiSel = 0
    /\ lastFetch = 0
    /\ refreshed = FALSE

\* a panic in a goroutine ends the process
Crashed == \E r \in ModelReqs : mf[r].pc = "panic"

\* variant: the cache is used whatever its age
CacheValidNoExpiry(c, t) ==
    c.Timestamp # 0 /\ Len(c.Models) > 0

\* "Check if cache is still valid (less than 12 hours old)"
CacheValid(c, t) ==
    c.Timestamp # 0 /\ t - c.Timestamp < CacheTTL /\ Len(c.Models) > 0

\* time passes
Tick ==
    /\ ~Crashed
    /\ now < MaxClock
    /\ now' = now + 1
    /\ UNCHANGED <<modelsCache, mf, selectedModel, uiSel, lastFetch, refreshed>>
    /\ UNCHANGED <<extractVars, guiVars, srvVars, procVars, convVars, web, ky>>

\* createModelSelector on the UI thread: the selector with the one option
\* state.selectedModel, and the start of the goroutine; createUI's call
\* (main), the first one as main calls createUI before the window is shown,
\* makes the selector state.ui.modelSelector, showSettings' does not
CreateModelSelector(r, main) ==
    /\ ~Crashed
    /\ mf[r].pc = "idle"
    /\ \A q \in ModelReqs : q < r => mf[q].pc # "idle"
    /\ main <=> uiSel = 0
    /\ mf' = [mf EXCEPT ![r].kind = "selector", ![r].pc = "check",
                      ![r].options = <<selectedModel>>]
    /\ uiSel' = IF main THEN r ELSE uiSel
    /\ UNCHANGED <<modelsCache, now, selectedModel, lastFetch, refreshed>>
    /\ UNCHANGED <<extractVars, guiVars, srvVars, procVars, convVars, web, ky>>

\* refreshModelsList on the UI thread (a menu item or a button of the window
\* createUI built): the timestamp is cleared, the progress dialog shown and
\* the goroutine started
RefreshModelsList(r) ==
    /\ ~Crashed
    /\ uiSel # 0
    /\ mf[r].pc = "idle"
    /\ \A q \in ModelReqs : q < r => mf[q].pc # "idle"
    /\ modelsCache' = [modelsCache EXCEPT !.Timestamp = 0]
    /\ refreshed' = TRUE
    /\ mf' = [mf EXCEPT ![r].kind = "refresh", ![r].pc = "check",
                      ![r].progress = "shown"]
    /\ UNCHANGED <<now, selectedModel, uiSel, lastFetch>>
    /\ UNCHANGED <<extractVars, guiVars, srvVars, procVars, convVars, web, ky>>

\* the goroutine of createModelSelector once fetchAvailableModels returned
\* ids and err to it; q is the goroutine at the return
SelectorUpdate(r, q, ids, err) ==
    LET found == \E i \in 1..Len(ids) : ids[i] = selectedModel
    IN IF err \/ Len(ids) = 0
       THEN /\ mf' = [mf EXCEPT ![r] = [q EXCEPT !.pc = "done"]]
            /\ UNCHANGED selectedModel
       ELSE /\ mf' = [mf EXCEPT ![r] = [q EXCEPT !.pc = "done", !.options = ids]]
            /\ selectedModel' = IF found THEN selectedModel ELSE ids[1]

\* the goroutine of refreshModelsList once fetchAvailableModels returned
RefreshUpdate(r, q, ids, err) ==
    LET d == [q EXCEPT !.pc = "done", !.progress = "hidden"]
    IN /\ IF err
          THEN mf' = [mf EXCEPT ![r] = [d EXCEPT !.dialog = "error"]]
          ELSE IF uiSel # 0 /\ Len(ids) > 0
          THEN mf' = [mf EXCEPT ![r] = [d EXCEPT !.dialog = "refreshed"],
                                ![uiSel].options = ids]
          ELSE mf' = [mf EXCEPT ![r] = d]
       /\ UNCHANGED selectedModel

\* fetchAvailableModels returns to the goroutine that called it
FetchReturned(r, q, ids, err) ==
    IF q.kind = "selector" THEN SelectorUpdate(r, q, ids, err)
    ELSE RefreshUpdate(r, q, ids, err)

\* fetchAvailableModels: the validity test and len(modelsCache.Models)
FetchCheck(r) ==
    /\ ~Crashed
    /\ mf[r].pc = "check"
    /\ IF CacheValid(modelsCache, now)
       THEN mf' = [mf EXCEPT ![r].pc = "copy", ![r].via = "cache",
                             ![r].n = Len(modelsCache.Models)]
       ELSE mf' = [mf EXCEPT ![r].pc = "network", ![r].via = "network"]
    /\ UNCHANGED <<modelsCache, now, selectedModel, uiSel, lastFetch, refreshed>>
    /\ UNCHANGED <<extractVars, guiVars, srvVars, procVars, convVars, web, ky>>

\* fetchAvailableModels: "for i, model := range modelsCache.Models" into the
\* slice made before, and the return of the IDs; a list that is longer by
\* now indexes out of range
FetchCopy(r) ==
    /\ ~Crashed
    /\ mf[r].pc = "copy"
    /\ IF Len(modelsCache.Models) > mf[r].n
       THEN /\ mf' = [mf EXCEPT ![r].pc = "panic", ![r].n = 0]
            /\ UNCHANGED selectedModel
       ELSE FetchReturned(r, [mf[r] EXCEPT !.n = 0],
                          \* modelIDs := make([]string, n), filled from the list
                          [i \in 1..mf[r].n |->
                              IF i <= Len(modelsCache.Models)
                              THEN modelsCache.Models[i] ELSE ""], FALSE)
    /\ UNCHANGED <<modelsCache, now, uiSel, lastFetch, refreshed>>
    /\ UNCHANGED <<extractVars, guiVars, srvVars, procVars, convVars, web, ky>>

\* variant: a failed GET empties the cached list before the error is returned
FetchNetReturnClearOnFail(r, reply) ==
    /\ ~Crashed
    /\ mf[r].pc = "network"
    /\ IF reply.ok
       THEN /\ mf' = [mf EXCEPT ![r].pc = "store", ![r].data = reply.data]
            /\ UNCHANGED <<selectedModel, modelsCache>>
       ELSE /\ FetchReturned(r, mf[r], <<>>, TRUE)
            /\ modelsCache' = [modelsCache EXCEPT !.Models = <<>>]
    /\ UNCHANGED <<now, uiSel, lastFetch, refreshed>>
    /\ UNCHANGED <<extractVars, guiVars, srvVars, procVars, convVars, web, ky>>

\* fetchAvailableModels: the GET of the models endpoint returns; a failure
\* is returned as the error
FetchNetReturn(r, reply) ==
    /\ ~Crashed
    /\ mf[r].pc = "network"
    /\ IF reply.ok
       THEN /\ mf' = [mf EXCEPT ![r].pc = "store", ![r].data = reply.data]
            /\ UNCHANGED selectedModel
       ELSE FetchReturned(r, mf[r], <<>>, TRUE)
    /\ UNCHANGED <<modelsCache, now, uiSel, lastFetch, refreshed>>
    /\ UNCHANGED <<extractVars, guiVars, srvVars, procVars, convVars, web, ky>>

\* fetchAvailableModels: modelsCache.Models = modelsResp.Data
FetchStoreModels(r) ==
    /\ ~Crashed
    /\ mf[r].pc = "store"
    /\ modelsCache' = [modelsCache EXCEPT !.Models = mf[r].data]
    /\ mf' = [mf EXCEPT ![r].pc = "storeTimestamp"]
    /\ UNCHANGED <<now, selectedModel, uiSel, lastFetch, refreshed>>
    /\ UNCHANGED <<extractVars, guiVars, srvVars, procVars, convVars, web, ky>>

\* fetchAvailableModels: modelsCache.Timestamp = time.Now(), and the return
\* of the fetched IDs
FetchStoreTimestamp(r) ==
    /\ ~Crashed
    /\ mf[r].pc = "storeTimestamp"
    /\ modelsCache' = [modelsCache EXCEPT !.Timestamp = now]
    /\ lastFetch' = now
    /\ refreshed' = FALSE
    /\ FetchReturned(r, [mf[r] EXCEPT !.data = <<>>], mf[r].data, FALSE)
    /\ UNCHANGED <<now, uiSel>>
    /\ UNCHANGED <<extractVars, guiVars, srvVars, procVars, convVars, web, ky>>

NextCache ==
    \/ Tick
    \/ \E r \in ModelReqs, main \in BOOLEAN : CreateModelSelector(r, main)
    \/ \E r \in ModelReqs : RefreshModelsList(r)
    \/ \E r \in ModelReqs : FetchCheck(r)
    \/ \E r \in ModelReqs : FetchCopy(r)
    \/ \E r \in ModelReqs, reply \in NetReplies : FetchNetReturn(r, reply)
    \/ \E r \in ModelReqs : FetchStoreModels(r)
    \/ \E r \in ModelReqs : FetchStoreTimestamp(r)

-----------------------------------------------------------------------------
(* The intent processor handling one intent: ParseIntent, then ExecuteIntent
   on the parsed intent, with the LLM as the environment *)

\* completion texts of the generation call: the texts the server model
\* uses, one with an empty code section and one with three empty sections
ProcGenTexts == GenTexts \cup
                { MarkerCode \o MarkerAst \o <<"x">> \o MarkerSem \o <<"1">>,
                  MarkerCode \o MarkerAst \o MarkerSem }

\* processLLMSections: the generatedCode, ast and semantics fields of the
\* response; a section that is a JSON text is answered decoded
ProcessLLMSections(sections_) ==
    LET field(k, default) ==
            IF k \notin DOMAIN sections_ THEN [kind |-> "default", val |-> default]
            ELSE IF Unmarshal(sections_[k]).ok
            THEN [kind |-> "json", val |-> Marshal(Unmarshal(sections_[k]).val).js]
            ELSE [kind |-> "string", val |-> sections_[k]]
    IN [ kind |-> "llm",
         generatedCode |-> IF "code" \in DOMAIN sections_ THEN sections_["code"]
                           ELSE <<"// No code was generated">>,
         ast |-> field("ast", <<"Program">>),
         semantics |-> field("semantics", <<"entities", "relations">>) ]

\* handleIntent from the return of ParseIntent on: the answer to the request
HandleIntentResponse(parseErr, execErr, result) ==
    IF parseErr # "nil" THEN [kind |-> "parseError"]
    ELSE IF execErr # "nil" THEN [kind |-> "execError"]
    ELSE IF result.kind = "sections" THEN ProcessLLMSections(result.m)
    ELSE [kind |-> "mock"]

ProcInit ==
    [ pc |-> "idle",
      hasClient |-> FALSE,    \* p.llmClient != nil
      raw |-> <<>>,           \* rawIntent
      parseCalls |-> 0,       \* GetChatCompletion calls made by ParseIntent
      parseFailed |-> FALSE,  \* err != nil after the call in parseIntentWithLLM
      type |-> "nil",         \* Type of the intent ParseIntent returned
      parseErr |-> "nil",     \* the error ParseIntent returned
      genCalls |-> 0,         \* GetChatCompletion calls made by ExecuteIntent
      genFailed |-> FALSE,    \* err != nil after the call in generateCodeWithLLM
      text |-> <<>>,          \* response.Choices[0].Message.Content of that call
      result |-> NoResult,    \* the result ExecuteIntent returned
      execErr |-> "nil",      \* the error ExecuteIntent returned
      response |-> [kind |-> "none"] ]  \* what handleIntent answers

ProcIdle == p = ProcInit

InitProc ==
    \E c \in BOOLEAN,
       raw \in { <<"create", "function">>, <<"make", "class">>, <<"change", "login">>,
                 <<"remove", "login">>, <<"find", "login">>, <<"hello">> } :
        p = [ProcInit EXCEPT !.pc = "start", !.hasClient = c, !.raw = raw]

\* ParseIntent up to the LLM call: without a client the basic parsing
ProcParseIntent ==
    /\ p.pc = "start"
    /\ IF p.hasClient
       THEN p' = [p EXCEPT !.pc = "parseCall", !.parseCalls = @ + 1]
       ELSE LET res == ParseIntent(FALSE, p.raw, "fail")
            IN p' = [p EXCEPT !.pc = "parsed", !.type = res.type,
                              !.parseErr = res.err]
    /\ UNCHANGED <<extractVars, guiVars, srvVars, cacheVars, convVars, web, ky>>

\* variant: a failed parse-stage call is made once more
ProcParseReturnRetry(reply) ==
    /\ p.pc = "parseCall"
    /\ LET res == ParseIntent(TRUE, p.raw, reply)
       IN IF reply = "fail"
          THEN p' = [p EXCEPT !.parseCalls = @ + 1]
          ELSE p' = [p EXCEPT !.pc = IF res.err # "nil" THEN "done" ELSE "parsed",
                              !.parseFailed = FALSE,
                              !.type = res.type, !.parseErr = res.err]
    /\ UNCHANGED <<extractVars, guiVars, srvVars, cacheVars, convVars, web, ky>>

\* parseIntentWithLLM: GetChatCompletion returns and ParseIntent with it
ProcParseReturn(reply) ==
    /\ p.pc = "parseCall"
    /\ LET res == ParseIntent(TRUE, p.raw, reply)
       IN p' = [p EXCEPT !.pc = IF res.err # "nil" THEN "done" ELSE "parsed",
                         !.parseFailed = (reply = "fail"),
                         !.type = res.type, !.parseErr = res.err]
    /\ UNCHANGED <<extractVars, guiVars, srvVars, cacheVars, convVars, web, ky>>

\* ExecuteIntent up to the LLM call: only a Create intent with a client
\* calls the LLM
ProcExecuteIntent ==
    /\ p.pc = "parsed"
    /\ IF p.type = "Create" /\ p.hasClient
       THEN p' = [p EXCEPT !.pc = "genCall", !.genCalls = @ + 1]
       ELSE LET res == ExecuteIntent(p.hasClient, p.type, <<"fail">>)
            IN p' = [p EXCEPT !.pc = "done", !.result = res.result,
                              !.execErr = res.err]
    /\ UNCHANGED <<extractVars, guiVars, srvVars, cacheVars, convVars, web, ky>>

\* generateCodeWithLLM: GetChatCompletion returns and ExecuteIntent with it
ProcGenReturn(reply) ==
    /\ p.pc = "genCall"
    /\ LET res == ExecuteIntent(TRUE, "Create", reply)
       IN p' = [p EXCEPT !.pc = "done", !.genFailed = (reply = <<"fail">>),
                         !.text = IF reply \in ProcGenTexts THEN reply ELSE <<>>,
                         !.result = res.result, !.execErr = res.err]
    /\ UNCHANGED <<extractVars, guiVars, srvVars, cacheVars, convVars, web, ky>>

\* handleIntent answers the request
ProcRespond ==
    /\ p.pc = "done"
    /\ p' = [p EXCEPT !.pc = "responded",
                      !.response = HandleIntentResponse(p.parseErr, p.execErr, p.result)]
    /\ UNCHANGED <<extractVars, guiVars, srvVars, cacheVars, convVars, web, ky>>

NextProc ==
    \/ ProcParseIntent
    \/ \E reply \in {"fail", "nochoices", "Create", "Query", ""} : ProcParseReturn(reply)
    \/ ProcExecuteIntent
    \/ \E reply \in ({<<"fail">>, <<"nochoices">>} \cup ProcGenTexts) : ProcGenReturn(reply)
    \/ ProcRespond

-----------------------------------------------------------------------------
(* convertToStringMap applied to one result, and the display its caller in
   executeIntent makes of the outcome *)

ConvValues == { Str(<<>>), Str(<<"a">>), Str(<<"a", "\"">>), Num(1), Nil, NaN, Chan } \cup
              { List(<<>>), List(<<Num(1)>>), List(<<Str(<<"a">>), Num(2)>>),
                List(<<Chan>>), IMap([k \in {"k"} |-> Str(<<"a">>)]),
                IMap([k \in {"k"} |-> NaN]) }

\* results handed to convertToStringMap
ConvInputs ==
    { IMap(f) : f \in UNION { [ks -> ConvValues] : ks \in SUBSET {"code", "ast"} } }
    \cup { SMap(f) : f \in UNION { [ks -> {<<>>, <<"a">>}] : ks \in SUBSET {"code", "ast"} } }
    \cup { [t |-> "struct", f |-> [k \in {"code", "k"} |-> IF k = "code" THEN Str(<<"a">>) ELSE v]] :
              v \in ConvValues }
    \cup ConvValues

NoDisplay == [wrote |-> {}, code |-> <<>>, ast |-> <<>>, semantics |-> <<>>]

ConvIdle ==
    cv = [pc |-> "idle", result |-> Nil, conv |-> ConvFail, shown |-> NoDisplay]

InitConv ==
    \E result \in ConvInputs :
        cv = [pc |-> "input", result |-> result, conv |-> ConvFail,
              shown |-> NoDisplay]

\* the call convertToStringMap(result)
Convert ==
    /\ cv.pc = "input"
    /\ cv' = [cv EXCEPT !.pc = "converted", !.conv = ConvertToStringMap(cv.result)]
    /\ UNCHANGED <<extractVars, guiVars, srvVars, cacheVars, procVars, web, ky>>

\* the caller sets the output fields
Display ==
    /\ cv.pc = "converted"
    /\ cv' = [cv EXCEPT !.pc = "displayed",
                        !.shown = DisplayConverted(cv.result, cv.conv)]
    /\ UNCHANGED <<extractVars, guiVars, srvVars, cacheVars, procVars, web, ky>>

NextConv == Convert \/ Display

-----------------------------------------------------------------------------
(* Web UI: fetchModels and the model cache kept in localStorage.  A model is
   represented by its id, an id by a one-character string.  The calls of
   fetchModels run on the one JavaScript thread and interleave at their
   awaits only. *)

WebReqs == 1..NumWebReqs

\* model lists the server proxy and the OpenRouter API answer with
WebLists == { <<>>, << <<"m1">> >>, << <<"m2">>, <<"m1">> >> }

\* availableModels.sort((a, b) => a.id.localeCompare(b.id)), for distinct ids
SortModels(list) ==
    LET In(id) == \E i \in 1..Len(list) : list[i] = id
    \* the ids in use, in the order of localeCompare
    IN SelectSeq(<< <<"anthropic/claude-3-haiku">>, <<"anthropic/claude-3-sonnet">>,
                    <<"google/gemini-pro">>, <<"m1">>, <<"m2">>,
                    <<"openai/gpt-3.5-turbo">>, <<"openai/gpt-4o">> >>, In)

\* JSON.stringify(availableModels)
Stringify(list) == Marshal(List([i \in 1..Len(list) |-> Str(list[i])])).js

\* JSON.parse(cachedData), for a text Stringify wrote
ParseModels(js) ==
    LET v == Unmarshal(js).val
    IN [i \in 1..Len(v.items) |-> v.items[i].s]

\* variant: cached data is used whatever its age
WebCacheValidNoExpiry(w) ==
    w.modelCache # <<>> /\ w.modelCacheTimestamp # 0

\* "Use cached data if it exists and hasn't expired"
WebCacheValid(w) ==
    /\ w.modelCache # <<>> /\ w.modelCacheTimestamp # 0
    /\ w.t - w.modelCacheTimestamp < CACHE_DURATION

\* populateModelSelector on the list availableModels was just set to
PopulateModelSelector(w, list) ==
    IF Len(list) = 0
    THEN [w EXCEPT !.availableModels = list, !.selector = "noModels"]
    ELSE [w EXCEPT !.availableModels = SortModels(list), !.selector = "options"]

WebCallInit ==
    [ pc |-> "idle",      \* "proxy", "direct": the fetch the call awaits
      now |-> 0,          \* const now = Date.now()
      found |-> "none",   \* the cache the call found: "none", "valid", "expired"
      shown |-> "none" ]  \* what the call ended with

\* the web UI not loaded
WebIdle ==
    web = [ t |-> 1, userApiKey |-> FALSE, modelCache |-> <<>>,
            modelCacheTimestamp |-> 0, availableModels |-> <<>>,
            selector |-> "empty", calls |-> [r \in WebReqs |-> WebCallInit] ]

\* answers to a fetch: a failure (network error or a status that is not ok),
\* a body without a data array, or a body with one
WebReplies == {[kind |-> "fail", data |-> <<>>], [kind |-> "malformed", data |-> <<>>]}
              \cup {[kind |-> "ok", data |-> d] : d \in WebLists}

\* the page is loaded: localStorage holds what an earlier visit left, an API
\* key or none and a model cache or none
InitWeb ==
    web \in { [ t |-> 1, userApiKey |-> k, modelCache |-> c,
                modelCacheTimestamp |-> IF c = <<>> THEN 0 ELSE 1,
                availableModels |-> <<>>, selector |-> "empty",
                calls |-> [r \in WebReqs |-> WebCallInit] ] :
              k \in BOOLEAN,
              c \in {<<>>} \cup { Stringify(l) : l \in WebLists \ {<<>>} } }

\* time passes
WebTick ==
    /\ web.t < MaxClock
    /\ web' = [web EXCEPT !.t = @ + 1]
    /\ UNCHANGED <<extractVars, guiVars, srvVars, cacheVars, procVars, convVars, ky>>
\* fetchModels from its start to its first await, on the state w: the cache
\* test, the API key test and the POST to /api/models
FetchModelsStart(w, r) ==
    LET found == IF w.modelCache = <<>> \/ w.modelCacheTimestamp = 0 THEN "none"
                 ELSE IF w.t - w.modelCacheTimestamp < CACHE_DURATION THEN "valid"
                 ELSE "expired"
    IN IF WebCacheValid(w)
       THEN [PopulateModelSelector(w, ParseModels(w.modelCache)) EXCEPT
                !.calls[r] = [pc |-> "done", now |-> w.t, found |-> found,
                              shown |-> "cache"]]
       ELSE IF ~w.userApiKey
       THEN [w EXCEPT !.calls[r] = [pc |-> "done", now |-> w.t, found |-> found,
                                    shown |-> "keyRequired"]]
       ELSE [w EXCEPT !.calls[r] = [pc |-> "proxy", now |-> w.t, found |-> found,
                                    shown |-> "none"]]

\* "Execute fetchModels on page load"
WebPageLoad(r) ==
    /\ web.calls[r].pc = "idle"
    /\ web' = FetchModelsStart(web, r)
    /\ UNCHANGED <<extractVars, guiVars, srvVars, cacheVars, procVars, convVars, ky>>
\* the click on Save API Key with a new key typed in: the key is kept and
\* fetchModels called
WebSaveKey(r) ==
    /\ web.calls[r].pc = "idle"
    /\ web' = FetchModelsStart([web EXCEPT !.userApiKey = TRUE], r)
    /\ UNCHANGED <<extractVars, guiVars, srvVars, cacheVars, procVars, convVars, ky>>
\* the click on Clear API Key
WebClearKey ==
    /\ web.userApiKey
    /\ web' = [web EXCEPT !.userApiKey = FALSE]
    /\ UNCHANGED <<extractVars, guiVars, srvVars, cacheVars, procVars, convVars, ky>>
\* the fetched list is kept, cached with the call's now, and shown
WebFetched(w, r, list) ==
    [PopulateModelSelector([w EXCEPT !.modelCache = Stringify(list),
                                     !.modelCacheTimestamp = w.calls[r].now],
                           list) EXCEPT
        !.calls[r].pc = "done", !.calls[r].shown = "fresh"]

\* the POST to /api/models returns: a list is cached and shown, anything
\* else leads to the GET of the OpenRouter API
WebProxyReturn(r, reply) ==
    /\ web.calls[r].pc = "proxy"
    /\ web' = IF reply.kind = "ok" THEN WebFetched(web, r, reply.data)
              ELSE [web EXCEPT !.calls[r].pc = "direct"]
    /\ UNCHANGED <<extractVars, guiVars, srvVars, cacheVars, procVars, convVars, ky>>
\* the catch block of fetchModels: "Try using cached data as fallback if
\* available, regardless of age", else the hardcoded list
WebCatch(w, r) ==
    IF w.modelCache # <<>>
    THEN [PopulateModelSelector(w, ParseModels(w.modelCache)) EXCEPT
             !.calls[r].pc = "done", !.calls[r].shown = "cacheAfterError"]
    ELSE [PopulateModelSelector(w,
             \* the "fallback list of common models"
             << <<"openai/gpt-3.5-turbo">>, <<"openai/gpt-4o">>,
                <<"anthropic/claude-3-haiku">>, <<"anthropic/claude-3-sonnet">>,
                <<"google/gemini-pro">> >>) EXCEPT
             !.calls[r].pc = "done", !.calls[r].shown = "hardcoded"]

\* the GET of the OpenRouter API returns: a list is cached and shown,
\* anything else is thrown and caught
WebDirectReturn(r, reply) ==
    /\ web.calls[r].pc = "direct"
    /\ web' = IF reply.kind = "ok" THEN WebFetched(web, r, reply.data)
              ELSE WebCatch(web, r)
    /\ UNCHANGED <<extractVars, guiVars, srvVars, cacheVars, procVars, convVars, ky>>
NextWeb ==
    \/ WebTick
    \/ \E r \in WebReqs : WebPageLoad(r)
    \/ \E r \in WebReqs : WebSaveKey(r)
    \/ WebClearKey
    \/ \E r \in WebReqs, reply \in WebReplies : WebProxyReturn(r, reply)
    \/ \E r \in WebReqs, reply \in WebReplies : WebDirectReturn(r, reply)

-----------------------------------------------------------------------------
(* Desktop GUI: the Save API Key handlers of createUI and showSettings.  Each
   click starts a goroutine; nothing synchronises the goroutines' accesses
   to state.apiKey, state.llmClient and the processor's client. *)

KeyReqs == 1..NumKeyReqs

KeyReqInit ==
    [ pc |-> "idle",
      oldKey |-> "",        \* oldKey := state.apiKey
      clientKey |-> "",     \* client.APIKey
      progress |-> "none",  \* the progress dialog
      dialog |-> "none" ]   \* the dialog the attempt ends with

\* no desktop GUI
KeyIdle ==
    ky = [ envKey |-> "", apiKey |-> "", llmClient |-> "", procClient |-> "",
           att |-> [r \in KeyReqs |-> KeyReqInit] ]

\* main: state.apiKey is the environment key, and with a key the client
\* llm.NewClient builds is kept, when it builds one
InitKey ==
    ky \in { [ envKey |-> k, apiKey |-> k, llmClient |-> c, procClient |-> c,
               att |-> [r \in KeyReqs |-> KeyReqInit] ] :
             k \in {"", "k0"}, c \in {"", "k0"} } \ 
           { [ envKey |-> "", apiKey |-> "", llmClient |-> "k0", procClient |-> "k0",
               att |-> [r \in KeyReqs |-> KeyReqInit] ] }

\* the click on Save API Key, on the UI thread: an empty input is refused,
\* else the progress dialog is shown and the goroutine started
KeySave(r, empty) ==
    /\ ky.att[r].pc = "idle"
    /\ \A q \in KeyReqs : q < r => ky.att[q].pc # "idle"
    /\ ky' = IF empty
             THEN [ky EXCEPT !.att[r].pc = "done", !.att[r].dialog = "keyRequired"]
             ELSE [ky EXCEPT !.att[r].pc = "spawned", !.att[r].progress = "shown"]
    /\ UNCHANGED <<extractVars, guiVars, srvVars, cacheVars, procVars, convVars, web>>
\* oldKey := state.apiKey
KeyReadOld(r) ==
    /\ ky.att[r].pc = "spawned"
    /\ ky' = [ky EXCEPT !.att[r].pc = "readOld", !.att[r].oldKey = ky.apiKey]
    /\ UNCHANGED <<extractVars, guiVars, srvVars, cacheVars, procVars, convVars, web>>
\* state.apiKey = apiKeyInput.Text
KeyWrite(r, input) ==
    /\ ky.att[r].pc = "readOld"
    /\ ky' = [ky EXCEPT !.att[r].pc = "wrote", !.apiKey = input]
    /\ UNCHANGED <<extractVars, guiVars, srvVars, cacheVars, procVars, convVars, web>>
\* client := &llm.Client{APIKey: state.apiKey, ...} and the start of
\* client.GetAvailableModels()
KeyBuildClient(r) ==
    /\ ky.att[r].pc = "wrote"
    /\ ky' = [ky EXCEPT !.att[r].pc = "verifying", !.att[r].clientKey = ky.apiKey]
    /\ UNCHANGED <<extractVars, guiVars, srvVars, cacheVars, procVars, convVars, web>>

\* GetAvailableModels returns: on an error state.apiKey = oldKey and the
\* error dialog, else state.llmClient = client
KeyVerifyReturn(r, ok) ==
    /\ ky.att[r].pc = "verifying"
    /\ ky' = IF ~ok
             THEN [ky EXCEPT !.att[r].pc = "done", !.att[r].progress = "hidden",
                             !.att[r].dialog = "invalid",
                             !.apiKey = ky.att[r].oldKey]
             ELSE [ky EXCEPT !.att[r].pc = "setProc", !.llmClient = ky.att[r].clientKey]
    /\ UNCHANGED <<extractVars, guiVars, srvVars, cacheVars, procVars, convVars, web>>
\* state.intentProcessor.SetLLMClient(client) and the "API Key Saved" dialog
KeySetProcClient(r) ==
    /\ ky.att[r].pc = "setProc"
    /\ ky' = [ky EXCEPT !.att[r].pc = "done", !.att[r].progress = "hidden",
                        !.att[r].dialog = "saved",
                        !.procClient = ky.att[r].clientKey]
    /\ UNCHANGED <<extractVars, guiVars, srvVars, cacheVars, procVars, convVars, web>>
NextKey ==
    \/ \E r \in KeyReqs, empty \in BOOLEAN : KeySave(r, empty)
    \/ \E r \in KeyReqs : KeyReadOld(r)
    \/ \E r \in KeyReqs, input \in {"kA", "kB"} : KeyWrite(r, input)
    \/ \E r \in KeyReqs : KeyBuildClient(r)
    \/ \E r \in KeyReqs, ok \in BOOLEAN : KeyVerifyReturn(r, ok)
    \/ \E r \in KeyReqs : KeySetProcClient(r)

-----
(* Specifications *)

\* the extractor alone, GUI and server at rest
InitExtractOnly == InitExtract /\ GuiIdle /\ SrvIdle /\ InitCache /\ ProcIdle /\ ConvIdle /\ WebIdle /\ KeyIdle

SpecExtract == InitExtractOnly /\ [][NextExtract]_vars

\* the desktop GUI alone
InitGuiOnly == ExtractIdle /\ InitGui /\ SrvIdle /\ InitCache /\ ProcIdle /\ ConvIdle /\ WebIdle /\ KeyIdle

SpecGui == InitGuiOnly /\ [][NextGui]_vars

\* the steps of request r that need no LLM call to return: its goroutines'
\* own steps and its timers
GuiStep(r) ==
    \/ GuiStartParse(r)
    \/ GuiParseTimerFire(r)
    \/ GuiParseCompleted(r)
    \/ GuiParseTimedOut(r)
    \/ GuiExecTimerFire(r)
    \/ GuiExecCompleted(r)
    \/ GuiExecTimedOut(r)

\* The Go scheduler runs every runnable goroutine and timers fire; nothing
\* makes a call to the LLM return.

SpecGuiFair == SpecGui /\ \A r \in GuiReqs : WF_vars(GuiStep(r))

\* the HTTP server alone
InitSrvOnly == ExtractIdle /\ GuiIdle /\ InitSrv /\ InitCache /\ ProcIdle /\ ConvIdle /\ WebIdle /\ KeyIdle

SpecSrv == InitSrvOnly /\ [][NextSrv]_vars

\* the models cache of the desktop GUI alone
InitCacheOnly == ExtractIdle /\ GuiIdle /\ SrvIdle /\ InitCache /\ ProcIdle /\ ConvIdle /\ WebIdle /\ KeyIdle

SpecCache == InitCacheOnly /\ [][NextCache]_vars

\* the intent processor alone
InitProcOnly == ExtractIdle /\ GuiIdle /\ SrvIdle /\ InitCache /\ InitProc /\ ConvIdle /\ WebIdle /\ KeyIdle

SpecProc == InitProcOnly /\ [][NextProc]_vars

\* convertToStringMap alone
InitConvOnly == ExtractIdle /\ GuiIdle /\ SrvIdle /\ InitCache /\ ProcIdle /\ InitConv /\ WebIdle /\ KeyIdle

SpecConv == InitConvOnly /\ [][NextConv]_vars

\* the web UI's fetchModels alone
InitWebOnly ==
    ExtractIdle /\ GuiIdle /\ SrvIdle /\ InitCache /\ ProcIdle /\ ConvIdle /\ InitWeb /\ KeyIdle

SpecWeb == InitWebOnly /\ [][NextWeb]_vars

\* the Save API Key handlers alone
InitKeyOnly ==
    ExtractIdle /\ GuiIdle /\ SrvIdle /\ InitCache /\ ProcIdle /\ ConvIdle /\ WebIdle /\ InitKey

SpecKey == InitKeyOnly /\ [][NextKey]_vars

-----------------------------------------------------------------------------
(* Properties of the section extractor *)

HasCode(t) == Index(t, MarkerCode) # -1
HasAst(t) == Index(t, MarkerAst) # -1
HasSem(t) == Index(t, MarkerSem) # -1
AnyMarker(t) == HasCode(t) \/ HasAst(t) \/ HasSem(t)

\* the three markers occur, first occurrences in the order CODE, AST,
\* SEMANTICS, without overlapping one another
MarkersInOrder(t) ==
    /\ HasCode(t) /\ HasAst(t) /\ HasSem(t)
    /\ Index(t, MarkerCode) + Len(MarkerCode) <= Index(t, MarkerAst)
    /\ Index(t, MarkerAst) + Len(MarkerAst) <= Index(t, MarkerSem)

\* the text strictly between two positions of the whole text, trimmed
Between(t, from, to) == TrimSpace(Slice(t, from, to))

HoldsPlaceholder(m) ==
    \/ Get(m, "code") \in {PlaceholderAst, PlaceholderSem}
    \/ Get(m, "ast") \in {PlaceholderAst, PlaceholderSem}
    \/ Get(m, "semantics") \in {PlaceholderAst, PlaceholderSem}

\* C1: for every text holding ===CODE===, ===AST=== and ===SEMANTICS=== in
\* that order, code is the trimmed text strictly between ===CODE=== and
\* ===AST===, ast the trimmed text strictly between ===AST=== and
\* ===SEMANTICS===, and semantics the trimmed text after ===SEMANTICS===.
C1_ThreeMarkersSliced ==
    (epc = "extracted" /\ MarkersInOrder(text)) =>
        /\ DOMAIN sections = {"code", "ast", "semantics"}
        /\ sections["code"] =
              Between(text, Index(text, MarkerCode) + Len(MarkerCode),
                      Index(text, MarkerAst))
        /\ sections["ast"] =
              Between(text, Index(text, MarkerAst) + Len(MarkerAst),
                      Index(text, MarkerSem))
        /\ sections["semantics"] =
              TrimSpace(SliceFrom(text, Index(text, MarkerSem) + Len(MarkerSem)))

\* C2: the placeholder fallback is applied if and only if none of the three
\* markers occurs in the text; whenever a marker occurs no section holds
\* placeholder text.
C2_FallbackIffNoMarker ==
    epc = "extracted" => (HoldsPlaceholder(sections) <=> ~AnyMarker(text))

C4_OnlyCodeMarker ==
    (epc = "extracted" /\ HasCode(text) /\ ~HasAst(text) /\ ~HasSem(text)) =>
        /\ DOMAIN sections = {"code"}
        /\ sections["code"] =
              TrimSpace(SliceFrom(text, Index(text, MarkerCode) + Len(MarkerCode)))

\* C5: for a text holding ===AST=== but not ===CODE===, ast is the trimmed
\* text from just after the first ===AST=== up to the next ===SEMANTICS===
\* (or to the end of the text), and the key code is absent.
C5_AstWithoutCode ==
    (epc = "extracted" /\ HasAst(text) /\ ~HasCode(text)) =>
        /\ "code" \notin DOMAIN sections
        /\ "ast" \in DOMAIN sections
        /\ LET start == Index(text, MarkerAst) + Len(MarkerAst)
               rest == SliceFrom(text, start)
           IN sections["ast"] =
                 IF Index(rest, MarkerSem) # -1
                 THEN Between(text, start, start + Index(rest, MarkerSem))
                 ELSE TrimSpace(rest)

\* C6: when the code section the extractor produced holds no marker, running
\* the extractor on that code section returns it unchanged as code.
C6_ReExtractIsNoOp ==
    (epc = "reextracted" /\ ~AnyMarker(Get(sections, "code"))) =>
        /\ "code" \in DOMAIN resections
        /\ resections["code"] = Get(sections, "code")

\* a code section cut out between markers was extracted a second time
C6_Witness ==
    /\ epc = "reextracted"
    /\ HasCode(text) /\ HasAst(text)
    /\ Get(sections, "code") # <<>>
    /\ ~AnyMarker(Get(sections, "code"))
    /\ Get(sections, "ast") # PlaceholderAst
    /\ Get(resections, "code") = Get(sections, "code")
    /\ Get(resections, "ast") = PlaceholderAst

-----------------------------------------------------------------------------
(* Properties of the GUI executeIntent *)

OutputsOf(r) ==
    {k \in {"code", "ast", "semantics"} :
        \/ k = "code" /\ codeOutput.req = r
        \/ k = "ast" /\ astOutput.req = r
        \/ k = "semantics" /\ semanticOutput.req = r}

\* C7: once the parse timer was taken, ExecuteIntent is never started for the
\* request and the request sets none of the code, AST and semantics outputs,
\* however late ParseIntent returns; once the execute timer was taken, the
\* request sets none of the outputs either.
C7_TimeoutDiscardsResult ==
    \A r \in GuiReqs :
        /\ g[r].dialog = "parseTimeout" =>
              /\ g[r].pc = "done"
              /\ g[r].execPc = "none"
              /\ g[r].wrote = {} /\ OutputsOf(r) = {}
        /\ g[r].dialog = "execTimeout" =>
              /\ g[r].pc = "done"
              /\ g[r].wrote = {} /\ OutputsOf(r) = {}

\* a request timed out in the parse stage and its ParseIntent returned later;
\* another timed out in the execute stage and its ExecuteIntent returned later
C7_Witness ==
    \E r1, r2 \in GuiReqs :
        /\ g[r1].dialog = "parseTimeout" /\ g[r1].parsePc = "done"
        /\ g[r1].execPc = "none" /\ g[r1].wrote = {}
        /\ g[r2].dialog = "execTimeout" /\ g[r2].execPc = "done"
        /\ g[r2].wrote = {}

GuiOutcomeShown(r) ==
    \/ g[r].dialog \in {"parseError", "execError", "parseTimeout", "execTimeout"}
    \/ g[r].dialog = "none" /\ "code" \in g[r].wrote

\* C8: every executeIntent request made with a configured LLM client ends
\* with a result, an error or a timeout error shown and the progress dialog
\* hidden, also when an LLM call never returns; executeIntent has returned
\* to the UI thread before any LLM call of the request starts.
C8_RequestEnds ==
    /\ \A r \in GuiReqs :
          (g[r].progress = "shown") ~>
              (g[r].pc = "done" /\ g[r].progress = "hidden" /\ GuiOutcomeShown(r))
    /\ [](\A r \in GuiReqs :
            g[r].pc = "spawned" =>
                (g[r].progress = "shown" /\ g[r].parsePc = "none" /\ g[r].execPc = "none"))

\* a request ended with the execute timeout shown and the progress dialog
\* hidden while its LLM call is still in flight
C8_Witness ==
    \E r \in GuiReqs :
        /\ guiClient
        /\ g[r].pc = "done" /\ g[r].progress = "hidden"
        /\ g[r].dialog = "execTimeout" /\ g[r].execPc = "calling"

-----------------------------------------------------------------------------
(* Properties of the HTTP server *)

SrvQuiet == \A r \in SrvReqs : h[r].pc \in {"idle", "done"}

\* C9: a request that carries no api_key is never parsed or executed with an
\* LLM client built from another request's api_key.
C9_NoForeignKey ==
    \A r \in SrvReqs :
        ~h[r].apiKey => /\ h[r].usedParse.kind # "temp"
                        /\ h[r].usedExec.kind # "temp"

\* C16: when no credential is available (no environment key and no api_key
\* in the request), /api/intent answers with neither generated nor mock code.
C16_NoCodeWithoutCredential ==
    \A r \in SrvReqs :
        (srvClient = NilClient /\ ~h[r].apiKey /\ h[r].pc \in {"deferred", "done"}) =>
            h[r].response \notin {"generated", "mock"}

\* /api/intent request r is received, without a model_id, after a
\* /api/models/select request was answered with success true
ReceivedAfterSelect(r) ==
    /\ h[r].pc = "idle" /\ h'[r].pc = "parse"
    /\ h'[r].modelID = ""
    /\ \E q \in SrvReqs : h[q].response = "selected"

\* C18: whenever /api/models/select answered success true for model m, a
\* later /api/intent request without a model_id is processed with a client
\* whose model is m (the environment client, or the client built from the
\* request's api_key).
C18_SelectedModelIsUsed ==
    [][\A r \in SrvReqs :
          (ReceivedAfterSelect(r) /\ procClient' \in {EnvClient, TempClient(r)}) =>
              LET model == IF procClient' = TempClient(r) THEN h'[r].modelID
                           ELSE srvModel'
              IN \A q \in SrvReqs :
                    h[q].response = "selected" => model = h[q].modelID]_vars

\* C10: when the server has no environment client and no request is in
\* flight, the intent processor's LLM client is nil, whatever requests
\* supplied an api_key before.
C10_KeyNotKept ==
    (srvClient = NilClient /\ SrvQuiet) => procClient = NilClient

\* two requests that supplied an api_key have returned, one with generated
\* code and after an LLM call made with a temporary client
C10_Witness ==
    /\ srvClient = NilClient /\ SrvQuiet /\ procClient = NilClient
    /\ \E r1, r2 \in SrvReqs :
          /\ r1 # r2
          /\ h[r1].pc = "done" /\ h[r1].tempClient /\ h[r1].response = "generated"
          /\ h[r1].usedExec.kind = "temp"
          /\ h[r2].pc = "done" /\ h[r2].tempClient

-----------------------------------------------------------------------------
(* Properties of the models cache *)

\* the step in which fetch r makes its choice between the cache and the network
ChoosesSource(r) == mf[r].pc = "check" /\ mf'[r].pc # "check"

\* a network fetch stored its result less than twelve hours ago and
\* refreshModelsList did not run since
FetchedRecently == lastFetch # 0 /\ now - lastFetch < CacheTTL /\ ~refreshed

\* C11 as stated: fetchAvailableModels answers from the cache, without a
\* network request, whenever the last successful fetch is less than 12 hours
\* old and no manual refresh happened since, and fetches from the network
\* when nothing was fetched yet, when the cached entry is 12 hours old or
\* older, or after a manual refresh.
C11_CachedIffFetchedRecently ==
    [][\A r \in ModelReqs :
          ChoosesSource(r) => (mf'[r].via = "cache" <=> FetchedRecently)]_vars

\* C11 amended: fetchAvailableModels answers from the cache, without a
\* network request, exactly when the last successful fetch is less than 12
\* hours old, no manual refresh happened since and the list held in the
\* cache is not empty; in every other case it fetches from the network.
C11_CachedIffFreshAndNonEmpty ==
    [][\A r \in ModelReqs :
          ChoosesSource(r) =>
              /\ mf'[r].via \in {"cache", "network"}
              /\ mf'[r].via = "cache" <=>
                    (FetchedRecently /\ Len(modelsCache.Models) > 0)]_vars

\* a fetch went to the network and filled the cache, and a later one was
\* answered from the cache with the two IDs stored
C11_Witness ==
    \E r1, r2 \in ModelReqs :
        /\ mf[r1].pc = "done" /\ mf[r1].via = "network"
        /\ mf[r2].pc = "done" /\ mf[r2].via = "cache"
        /\ mf[r2].kind = "selector" /\ Len(mf[r2].options) = 2
        /\ lastFetch # 0 /\ ~refreshed

\* the step of fetch r reads or writes modelsCache
AccessesCache(r) ==
    \/ mf[r].pc \in {"check", "copy", "store", "storeTimestamp"} /\ mf'[r].pc # mf[r].pc
    \/ mf[r].pc = "idle" /\ mf'[r].kind = "refresh"

\* fetch q has stored the list and not yet the timestamp
WritingCache(q) == mf[q].pc = "storeTimestamp"

\* C12: no goroutine reads or writes modelsCache while another goroutine is in
\* the middle of writing the list/timestamp pair.
C12_NoAccessDuringWrite ==
    [][\A r \in ModelReqs :
          AccessesCache(r) => \A q \in ModelReqs \ {r} : ~WritingCache(q)]_vars

\* C13: the list a manual refresh loads into the selector comes from a
\* network fetch made by that refresh, never from the cached list.
C13_RefreshLoadsFetchedList ==
    \A r \in ModelReqs :
        (mf[r].kind = "refresh" /\ mf[r].dialog = "refreshed") => mf[r].via = "network"

-----------------------------------------------------------------------------
(* Properties of the intent processor *)

\* C14: when the LLM call made by ParseIntent fails, ParseIntent returns a
\* non-nil error, and when the LLM call made by ExecuteIntent fails,
\* ExecuteIntent returns a non-nil error.
C14_FailedCallIsReported ==
    /\ p.parseFailed => p.parseErr # "nil"
    /\ p.genFailed => p.execErr # "nil"

\* C15: handling one intent issues at most one parse-stage LLM call and at
\* most one generation-stage LLM call, whatever calls fail.
C15_NoRetry == p.parseCalls <= 1 /\ p.genCalls <= 1

\* both LLM calls of one intent failed and each was made once
C15_Witness ==
    /\ p.pc = "done"
    /\ p.parseFailed /\ p.parseCalls = 1
    /\ p.genFailed /\ p.genCalls = 1

\* C17: for a Create intent whose generation reply holds the three markers
\* in order, the /api/intent response has a non-empty generatedCode field.
C17_GeneratedCodeNonEmpty ==
    (p.pc = "responded" /\ p.type = "Create" /\ MarkersInOrder(p.text)) =>
        /\ p.response.kind = "llm"
        /\ p.response.generatedCode # <<>>

-----------------------------------------------------------------------------
(* Properties of convertToStringMap *)

\* json.Marshal accepts the value: no NaN and no channel in it
RECURSIVE Marshalable(_)
Marshalable(v) ==
    CASE v.t \in {"nan", "chan"} -> FALSE
      [] v.t = "list" -> \A i \in 1..Len(v.items) : Marshalable(v.items[i])
      [] v.t \in {"imap", "struct"} -> \A k \in DOMAIN v.f : Marshalable(v.f[k])
      [] OTHER -> TRUE

\* js is a JSON text that decodes to the value v
EncodesValue(js, v) == Unmarshal(js).ok /\ Unmarshal(js).val = v

Converted == cv.pc \in {"converted", "displayed"}

\* C19 as stated: for a map[string]interface{}, each value of the returned
\* map is the input string unchanged, or a valid JSON encoding of the input
\* value when that is no string.
C19_StringOrJSON ==
    (Converted /\ cv.result.t = "imap") =>
        /\ cv.conv.ok
        /\ DOMAIN cv.conv.m = DOMAIN cv.result.f
        /\ \A k \in DOMAIN cv.result.f :
              IF cv.result.f[k].t = "string"
              THEN cv.conv.m[k] = cv.result.f[k].s
              ELSE EncodesValue(cv.conv.m[k], cv.result.f[k])

\* C19 amended: each value of the returned map is the input string
\* unchanged, or a valid JSON encoding of the input value when that is no
\* string and json.Marshal accepts it, or the %v formatting of the input
\* value when json.Marshal rejects it.
C19_StringOrJSONOrFormatted ==
    (Converted /\ cv.result.t = "imap") =>
        /\ cv.conv.ok
        /\ DOMAIN cv.conv.m = DOMAIN cv.result.f
        /\ \A k \in DOMAIN cv.result.f :
              LET v == cv.result.f[k]
              IN IF v.t = "string" THEN cv.conv.m[k] = v.s
                 ELSE IF Marshalable(v) THEN EncodesValue(cv.conv.m[k], v)
                 ELSE cv.conv.m[k] = Sprintf(v) /\ ~Unmarshal(cv.conv.m[k]).ok

\* a map with a string holding a quote, a nested map and a channel was
\* converted
C19_Witness ==
    /\ Converted /\ cv.result.t = "imap"
    /\ DOMAIN cv.result.f = {"code", "ast"}
    /\ cv.result.f["code"] = Str(<<"a", "\"">>)
    /\ cv.conv.m["code"] = <<"a", "\"">>
    /\ cv.result.f["ast"].t = "imap"
    /\ Marshalable(cv.result.f["ast"])
    /\ Len(cv.conv.m["ast"]) > 2

\* C20 as stated: for a value json.Marshal rejects, convertToStringMap
\* returns no map and ok = false, and the caller shows the raw display.
C20_UnmarshalableFails ==
    (Converted /\ ~Marshalable(cv.result)) =>
        /\ ~cv.conv.ok
        /\ cv.pc = "displayed" =>
              (cv.shown.wrote = {"code"} /\
               cv.shown.code = <<"// Result in unexpected format: ">> \o Sprintf(cv.result))

\* C20 amended: for a value that is no map[string]interface{} and that
\* json.Marshal rejects, convertToStringMap returns no map and ok = false,
\* and the caller shows the raw display; a map[string]interface{} is
\* converted value by value whatever it holds.
C20_UnmarshalableNonMapFails ==
    /\ (Converted /\ ~Marshalable(cv.result) /\ cv.result.t # "imap") =>
          /\ ~cv.conv.ok /\ cv.conv.m = EmptyMap
          /\ cv.pc = "displayed" =>
                (cv.shown.wrote = {"code"} /\
                 cv.shown.code = <<"// Result in unexpected format: ">> \o Sprintf(cv.result))
    /\ (Converted /\ cv.result.t = "imap") => cv.conv.ok

\* a struct holding a channel was refused and displayed with %v
C20_Witness ==
    /\ cv.pc = "displayed"
    /\ cv.result.t = "struct" /\ ~Marshalable(cv.result)
    /\ ~cv.conv.ok
    /\ cv.shown.wrote = {"code"}
    /\ Len(cv.shown.code) > 1

-----------------------------------------------------------------------------
(* The keys of the section map *)

\* C23: the section map the extractor returns has keys only among code, ast
\* and semantics, and a key is present exactly when its marker occurs in the
\* completion text, except that all three keys are present when no marker
\* occurs.
C23_KeyIffMarker ==
    epc = "extracted" =>
        /\ DOMAIN sections \subseteq {"code", "ast", "semantics"}
        /\ IF AnyMarker(text)
           THEN /\ "code" \in DOMAIN sections <=> HasCode(text)
                /\ "ast" \in DOMAIN sections <=> HasAst(text)
                /\ "semantics" \in DOMAIN sections <=> HasSem(text)
           ELSE DOMAIN sections = {"code", "ast", "semantics"}

-----------------------------------------------------------------------------
(* The select statements of executeIntent *)

\* the worker of request r has sent on the completion channel, the waiting
\* goroutine has not received yet and the stage's timer has not fired
ParseSignalledFirst(r) ==
    g[r].pc = "selectParse" /\ g[r].parseComplete > 0 /\ g[r].parseTimeout = "armed"

ExecSignalledFirst(r) ==
    g[r].pc = "selectExec" /\ g[r].execComplete > 0 /\ g[r].execTimeout = "armed"

\* C24: in executeIntent, if ParseIntent (respectively ExecuteIntent) signals
\* completion before its 30 second (respectively 60 second) timer fires, the
\* request is never reported as timed out in that stage.
C24_CompletionBeatsTimer ==
    [](\A r \in GuiReqs :
          /\ ParseSignalledFirst(r) => [](g[r].dialog # "parseTimeout")
          /\ ExecSignalledFirst(r) => [](g[r].dialog # "execTimeout"))

\* C25: after an executeIntent request finishes with a result, an error or a
\* timeout, the AST and semantics output fields show only content produced by
\* that request, never content left over from an earlier request.
C25_NoLeftoverOutputs ==
    [][\A r \in GuiReqs :
          (g[r].pc # "done" /\ g'[r].pc = "done" /\ GuiOutcomeShown(r)') =>
              /\ astOutput'.req \in {0, r}
              /\ semanticOutput'.req \in {0, r}]_vars

\* C28: the worker goroutine that runs ParseIntent or ExecuteIntent never
\* blocks on signalling completion: whenever the underlying call is still to
\* return, also after a timeout made the waiting goroutine return, the
\* completion channel has room for the worker's single send.
C28_WorkerSendNeverBlocks ==
    \A r \in GuiReqs :
        /\ g[r].parsePc = "calling" => g[r].parseComplete < ChanCap
        /\ g[r].execPc = "calling" => g[r].execComplete < ChanCap

\* one worker sent and ended after its request had timed out in the parse
\* stage, and the worker of another request is still in its call after the
\* execute timeout was reported
C28_Witness ==
    \E r1, r2 \in GuiReqs :
        /\ g[r1].dialog = "parseTimeout" /\ g[r1].pc = "done"
        /\ g[r1].parsePc = "done"
        /\ g[r2].dialog = "execTimeout" /\ g[r2].pc = "done"
        /\ g[r2].execPc = "calling" /\ g[r2].execComplete < ChanCap

-----------------------------------------------------------------------------
(* The temporary client of a request *)

\* request r is between handleIntent's SetLLMClient(tempClient) and the
\* return of ExecuteIntent
SrvHandling(r) ==
    h[r].pc \in {"parse", "parseCall", "parseWait", "exec", "genCall", "genWait"}

\* C26: when the server has no environment client, an /api/intent request
\* that supplies an api_key is processed with the client built from its own
\* key in the parse stage and in the execute stage: while it is handled the
\* intent processor's client is its client, and every LLM call it makes is
\* made with it, whatever other requests do.
C26_OwnClientThroughout ==
    \A r \in SrvReqs :
        h[r].tempClient =>
            /\ SrvHandling(r) => procClient = TempClient(r)
            /\ h[r].usedParse \in {NoCall, TempClient(r)}
            /\ h[r].usedExec \in {NoCall, TempClient(r)}
            /\ h[r].response # "panic"

-----------------------------------------------------------------------------
(* Failed fetches and the selector's options *)

\* the step in which the network fetch of call r fails and the call returns
\* its error
FetchFails(r) == mf[r].pc = "network" /\ mf'[r].pc = "done"

\* a step of call r on its way to the network
FetchGoesToNetwork(r) == mf[r].pc = "check" /\ mf'[r].pc = "network"

\* C27: when fetchAvailableModels fails (request error, non-200 status, body
\* read error or JSON decode error) it returns an error, and no step of the
\* failing call changes the cached model list or the cache timestamp.
C27_FailedFetchKeepsCache ==
    [][\A r \in ModelReqs :
          /\ FetchGoesToNetwork(r) => modelsCache' = modelsCache
          /\ FetchFails(r) =>
                /\ modelsCache' = modelsCache
                /\ lastFetch' = lastFetch
                /\ mf'[r].options = mf[r].options
                /\ mf'[r].kind = "refresh" => mf'[r].dialog = "error"]_vars

\* a refresh failed while the cache held the list of an earlier fetch, and
\* the list is still there
C27_Witness ==
    \E r \in ModelReqs :
        /\ mf[r].kind = "refresh" /\ mf[r].pc = "done" /\ mf[r].dialog = "error"
        /\ lastFetch # 0
        /\ Len(modelsCache.Models) = 2


\* the step in which fetchAvailableModels returns a non-empty list to its
\* caller r, which updates a selector with it
UpdatesSelector(r) ==
    /\ mf'[r].pc = "done"
    /\ \/ mf[r].pc = "copy"
       \/ mf[r].pc = "storeTimestamp" /\ mf[r].data # <<>>
    /\ mf[r].kind = "refresh" => uiSel # 0

\* C30: after any completed update of the model selector with a non-empty
\* fetched list (the background fetch of createModelSelector or a manual
\* refreshModelsList), state.selectedModel is one of the selector's options.
C30_SelectedModelAmongOptions ==
    [][\A r \in ModelReqs :
          UpdatesSelector(r) =>
              LET sel == IF mf[r].kind = "refresh" THEN uiSel ELSE r
              IN selectedModel' \in { mf'[sel].options[i] :
                                        i \in 1..Len(mf'[sel].options) }]_vars

-----------------------------------------------------------------------------
(* Browsing the models without a key *)

\* /api/models request r was answered after it passed the method check and
\* the decoding of its body
SrvModelsAnswered(r) ==
    h[r].pc = "done" /\ h[r].response \in {"unauthorized", "models", "modelsError"}

\* C21: the model list can be browsed without any API key: an /api/models
\* request is not refused for the lack of a key when neither the server (no
\* environment key) nor the request supplies one.
C21_ModelsWithoutKey ==
    \A r \in SrvReqs :
        (srvClient = NilClient /\ SrvModelsAnswered(r) /\ ~h[r].apiKey) =>
            h[r].response # "unauthorized"

-----------------------------------------------------------------------------
(* Properties of the web UI's model cache *)

\* the step in which call r of fetchModels ends with the selector populated
\* from the list cached in localStorage
PopulatesFromCache(r) ==
    /\ web.calls[r].pc # "done" /\ web'.calls[r].pc = "done"
    /\ web'.calls[r].shown \in {"cache", "cacheAfterError"}

\* modelCacheTimestamp is less than 12 hours old
WebCacheFresh ==
    web.modelCacheTimestamp # 0 /\ web.t - web.modelCacheTimestamp < CACHE_DURATION

\* C22 as stated: the web UI uses its browser-side model cache only while
\* the cached data is less than 12 hours old: once modelCacheTimestamp is 12
\* hours old or older, fetchModels never populates the model selector from
\* the cached list.
C22_NoStaleCache ==
    [][\A r \in WebReqs : PopulatesFromCache(r) => WebCacheFresh]_vars

\* C22 amended: once modelCacheTimestamp is 12 hours old or older,
\* fetchModels populates the model selector from the cached list only in its
\* error handler, after the call's request to the server proxy and its
\* request to the OpenRouter API both failed; the cache test at the start of
\* fetchModels never takes a cached list of that age.
C22_StaleCacheOnlyAfterError ==
    [][\A r \in WebReqs :
          (PopulatesFromCache(r) /\ ~WebCacheFresh) =>
              /\ web.calls[r].pc = "direct"
              /\ web'.calls[r].shown = "cacheAfterError"
              /\ web'.availableModels = SortModels(ParseModels(web.modelCache))]_vars

\* one call found the cache valid and showed the cached list, a later one
\* found it expired, failed to fetch and showed the cached list all the same
C22_Witness ==
    \E r1, r2 \in WebReqs :
        /\ web.calls[r1].pc = "done" /\ web.calls[r1].found = "valid"
        /\ web.calls[r1].shown = "cache"
        /\ web.calls[r2].pc = "done" /\ web.calls[r2].found = "expired"
        /\ web.calls[r2].shown = "cacheAfterError"
        /\ web.selector = "options"

-----------------------------------------------------------------------------
(* Properties of the Save API Key handlers *)

\* every Save API Key attempt has finished
KeyQuiet == \A r \in KeyReqs : ky.att[r].pc \in {"idle", "done"}

\* C29: once every Save API Key attempt has finished, state.apiKey equals the
\* key of the configured LLM client set by the last successful verification
\* (and the processor's client is that client); when every verification
\* failed, state.apiKey is the previous key and llmClient and the processor's
\* client are unchanged; also when two attempts overlap.
C29_KeyMatchesClient ==
    KeyQuiet =>
        IF \E r \in KeyReqs : ky.att[r].dialog = "saved"
        THEN /\ ky.apiKey = ky.llmClient
             /\ ky.procClient = ky.llmClient
             /\ \E r \in KeyReqs :
                   ky.att[r].dialog = "saved" /\ ky.att[r].clientKey = ky.llmClient
        ELSE /\ ky.apiKey = ky.envKey
             /\ ky.llmClient \in {"", ky.envKey}
             /\ ky.procClient = ky.llmClient

====
